---- MODULE Spec2Model ----
(***************************************************************************)
(* Onboarding agent coordination engine: the Orchestrator fans one         *)
(* employee record out to four rule-based agents (HR, IT, Training,        *)
(* Buddy), each running the BaseAgent perceive/decide/act/reflect loop on  *)
(* its own copy, and merges the results into one plan with a summary and   *)
(* a timeline.                                                             *)
(*                                                                         *)
(* JavaScript values are tagged records (Str, Num, Bool, Arr, Obj, Null);  *)
(* a JavaScript object is a function from its own property names to        *)
(* values, so that an absent property differs from a falsy one.  Time      *)
(* stamps, elapsed times and the note and metadata of tasks are left out.  *)
(***************************************************************************)
EXTENDS Integers, Sequences, FiniteSets, TLC

\* ------------------------------------------------------------------------
\* Bounds of the exploration
\* ------------------------------------------------------------------------
\* number of catalog items an employee of level "some" already holds
MaxHeld == 1
\* longest task list handed to buildTimeline on its own
MaxTasks == 3
\* how many days past each bucket boundary the dueInDays tried reach
MaxOver == 1

\* ------------------------------------------------------------------------
\* JavaScript values and objects
\* ------------------------------------------------------------------------
Str(s) == [str |-> s]
Num(n) == [num |-> n]
Bool(b) == [bool |-> b]
Arr(q) == [arr |-> q]
Obj(o) == [obj |-> o]
Null == [null |-> TRUE]

IsStr(v) == DOMAIN v = {"str"}
IsNum(v) == DOMAIN v = {"num"}
IsBool(v) == DOMAIN v = {"bool"}
IsArr(v) == DOMAIN v = {"arr"}
IsObj(v) == DOMAIN v = {"obj"}
IsNull(v) == DOMAIN v = {"null"}

\* an object with no own property
EmptyObject == <<>>

Has(o, k) == k \in DOMAIN o

\* ToBoolean of a value
TruthyValue(v) ==
  CASE IsStr(v) -> v.str # ""
    [] IsNum(v) -> v.num # 0
    [] IsBool(v) -> v.bool
    [] IsNull(v) -> FALSE
    [] OTHER -> TRUE

\* ToBoolean of o[k]; an absent property reads as undefined
Truthy(o, k) == Has(o, k) /\ TruthyValue(o[k])

\* o[k] = v
SetProp(o, k, v) == (k :> v) @@ o

\* Object.assign(target, source): every own property of source is written
ObjectAssign(target, source) == source @@ target

\* the elements of a sequence
Range(q) == {q[i] : i \in 1..Len(q)}

\* ------------------------------------------------------------------------
\* Strings
\* ------------------------------------------------------------------------
UpperChars == "ABCDEFGHIJKLMNOPQRSTUVWXYZ"
LowerChars == "abcdefghijklmnopqrstuvwxyz"
DigitChars == "0123456789"

CharAt(s, i) == SubSeq(s, i, i)

CharIn(c, alphabet) == \E i \in 1..Len(alphabet) : CharAt(alphabet, i) = c

IndexOfChar(c, alphabet) == CHOOSE i \in 1..Len(alphabet) : CharAt(alphabet, i) = c

\* the characters of a string
CharsOf(alphabet) == {CharAt(alphabet, i) : i \in 1..Len(alphabet)}

UpperSet == CharsOf(UpperChars)
LowerSet == CharsOf(LowerChars)
DigitSet == CharsOf(DigitChars)

LowerOf == [c \in UpperSet |-> CharAt(LowerChars, IndexOfChar(c, UpperChars))]
UpperOf == [c \in LowerSet |-> CharAt(UpperChars, IndexOfChar(c, LowerChars))]

LowerChar(c) == IF c \in UpperSet THEN LowerOf[c] ELSE c

UpperChar(c) == IF c \in LowerSet THEN UpperOf[c] ELSE c

\* String.prototype.toLowerCase
RECURSIVE toLowerCase(_)
toLowerCase(s) ==
  IF Len(s) = 0 THEN ""
  ELSE LowerChar(CharAt(s, 1)) \o toLowerCase(SubSeq(s, 2, Len(s)))

\* s.replace(/[class]+/g, rep): every maximal run of class characters
\* becomes one rep
RECURSIVE ReplaceRunsFrom(_, _, _, _)
ReplaceRunsFrom(s, i, class, rep) ==
  IF i > Len(s) THEN ""
  ELSE LET c == CharAt(s, i)
           out == IF ~CharIn(c, class) THEN c
                  ELSE IF i > 1 /\ CharIn(CharAt(s, i - 1), class) THEN ""
                  ELSE rep
       IN out \o ReplaceRunsFrom(s, i + 1, class, rep)

ReplaceRuns(s, class, rep) == ReplaceRunsFrom(s, 1, class, rep)

\* s.replace(/c/g, rep): every occurrence of the character c becomes rep
RECURSIVE ReplaceEach(_, _, _)
ReplaceEach(s, c, rep) ==
  IF Len(s) = 0 THEN ""
  ELSE (IF CharAt(s, 1) = c THEN rep ELSE CharAt(s, 1))
       \o ReplaceEach(SubSeq(s, 2, Len(s)), c, rep)

\* \w of a regular expression
IsWordChar(c) == c \in UpperSet \/ c \in LowerSet \/ c \in DigitSet \/ c = "_"

\* s.replace(/\b\w/g, c => c.toUpperCase()): the first character of every
\* word is upper-cased
RECURSIVE UpperWordStartsFrom(_, _)
UpperWordStartsFrom(s, i) ==
  IF i > Len(s) THEN ""
  ELSE LET c == CharAt(s, i)
           atStart == IsWordChar(c) /\ (i = 1 \/ ~IsWordChar(CharAt(s, i - 1)))
       IN (IF atStart THEN UpperChar(c) ELSE c) \o UpperWordStartsFrom(s, i + 1)

\* hr-agent.js: policy.replace(/_/g, ' ').replace(/\b\w/g, toUpperCase)
PolicyLabel(policy) == UpperWordStartsFrom(ReplaceEach(policy, "_", " "), 1)

\* decimal digits of a natural number (template literal `${n}`)
RECURSIVE DecimalString(_)
DecimalString(n) ==
  IF n < 10 THEN CharAt(DigitChars, n + 1)
  ELSE DecimalString(n \div 10) \o CharAt(DigitChars, (n % 10) + 1)

\* Number.prototype.toFixed(1) of a number kept in tenths
toFixed1(tenths) == DecimalString(tenths \div 10) \o "." \o DecimalString(tenths % 10)

\* ------------------------------------------------------------------------
\* Outcome of a phase: a value, or a thrown error with its message
\* ------------------------------------------------------------------------
Ok(v) == [threw |-> FALSE, value |-> v]
Threw(m) == [threw |-> TRUE, message |-> m]

\* BaseAgent.addLog (the timestamp is left out)
addLog(log, name, action, detail) ==
  Append(log, [agent |-> name, action |-> action, detail |-> detail])

\* context.employee.tasks.push(...newTasks)
PushTasks(employee, newTasks) ==
  SetProp(employee, "tasks", Arr(employee["tasks"].arr \o newTasks))

\* `if (!context.employee.tasks) context.employee.tasks = []`
EnsureTasks(employee) ==
  IF Truthy(employee, "tasks") THEN employee ELSE SetProp(employee, "tasks", Arr(<<>>))

\* `employee[k] || []`
OrEmptyArray(employee, k) == IF Truthy(employee, k) THEN employee[k] ELSE Arr(<<>>)

\* roleProfiles[key] / roleModules[key] on an object literal: an own
\* property, else a member inherited from Object.prototype, else undefined
ObjectPrototypeKeys ==
  {"constructor", "__proto__", "hasOwnProperty", "isPrototypeOf",
   "propertyIsEnumerable", "toLocaleString", "toString", "valueOf",
   "__defineGetter__", "__defineSetter__", "__lookupGetter__", "__lookupSetter__"}

Inherited == [inherited |-> TRUE]
IsInherited(v) == DOMAIN v = {"inherited"}

\* `table[department] || table.default`
LookupOrDefault(table, department) ==
  IF department \in DOMAIN table THEN table[department]
  ELSE IF department \in ObjectPrototypeKeys THEN Inherited
  ELSE table["default"]

\* ------------------------------------------------------------------------
\* HRAgent
\* ------------------------------------------------------------------------
HRName == "HR Agent"

requiredDocs ==
  << [id |-> "government_id", label |-> "Government-issued ID"],
     [id |-> "tax_w4", label |-> "W-4 Tax Withholding Form"],
     [id |-> "i9_form", label |-> "I-9 Employment Eligibility"],
     [id |-> "direct_deposit", label |-> "Direct Deposit Authorization"],
     [id |-> "emergency_contact", label |-> "Emergency Contact Form"],
     [id |-> "nda", label |-> "Non-Disclosure Agreement"] >>

policies == <<"code_of_conduct", "data_privacy", "remote_work", "anti_harassment">>

HRPerceive(employee) ==
  LET submitted == OrEmptyArray(employee, "documents")
  IN IF ~IsArr(submitted) THEN Threw("submitted.find is not a function")
     ELSE Ok([requiredDocs |-> requiredDocs,
              missing |-> SelectSeq(requiredDocs,
                            LAMBDA doc : ~\E d \in Range(submitted.arr) : d.id = doc.id),
              submitted |-> submitted])

\* the pool draws policiesAcknowledged from arrays and numbers only
HRDecide(employee, hrPerception) ==
  LET missing == hrPerception.missing
      acknowledged == OrEmptyArray(employee, "policiesAcknowledged")
      pendingPolicies == SelectSeq(policies, LAMBDA p : p \notin Range(acknowledged.arr))
  IN IF ~IsArr(acknowledged) THEN Threw("acknowledged.includes is not a function")
     ELSE Ok((IF Len(missing) > 0
                THEN <<[type |-> "request_documents", documents |-> missing]>>
                ELSE <<>>)
             \o (IF Len(pendingPolicies) > 0
                   THEN <<[type |-> "assign_policy_acknowledgments",
                           policies |-> pendingPolicies]>>
                   ELSE <<>>)
             \o (IF ~Truthy(employee, "benefitsEnrollmentStarted")
                   THEN <<[type |-> "initiate_benefits_enrollment"]>>
                   ELSE <<>>))

HRDocTask(doc) ==
  [id |-> "hr-doc-" \o doc.id, agent |-> HRName, type |-> "document_upload",
   title |-> "Upload: " \o doc.label, status |-> "pending", priority |-> "high",
   dueInDays |-> 3, category |-> "HR Documents"]

HRPolicyTask(policy) ==
  [id |-> "hr-policy-" \o policy, agent |-> HRName, type |-> "policy_acknowledgment",
   title |-> "Acknowledge: " \o PolicyLabel(policy) \o " Policy", status |-> "pending",
   priority |-> "medium", dueInDays |-> 5, category |-> "Policies"]

HRBenefitsTask ==
  [id |-> "hr-benefits-enrollment", agent |-> HRName, type |-> "benefits_enrollment",
   title |-> "Complete Benefits Enrollment", status |-> "pending",
   priority |-> "medium", dueInDays |-> 14, category |-> "Benefits"]

\* one case of the switch in HRAgent.act; st = [employee, log]
HRActOne(st, action) ==
  CASE action.type = "request_documents" ->
         [employee |-> PushTasks(st.employee,
                         [i \in 1..Len(action.documents) |-> HRDocTask(action.documents[i])]),
          log |-> addLog(st.log, HRName, "request_documents",
                         "Requested " \o DecimalString(Len(action.documents)) \o " documents")]
    [] action.type = "assign_policy_acknowledgments" ->
         [employee |-> PushTasks(st.employee,
                         [i \in 1..Len(action.policies) |-> HRPolicyTask(action.policies[i])]),
          log |-> addLog(st.log, HRName, "assign_policies",
                         "Assigned " \o DecimalString(Len(action.policies))
                           \o " policy acknowledgments")]
    [] action.type = "initiate_benefits_enrollment" ->
         [employee |-> PushTasks(SetProp(st.employee, "benefitsEnrollmentStarted", Bool(TRUE)),
                                 <<HRBenefitsTask>>),
          log |-> addLog(st.log, HRName, "benefits_enrollment",
                         "Initiated benefits enrollment")]
    [] OTHER -> st

\* tasks.filter((t) => t.agent === this.name)
OwnTasks(employee, name) ==
  SelectSeq(OrEmptyArray(employee, "tasks").arr, LAMBDA t : t.agent = name)

HRReflect(employee, log) ==
  LET hrTasks == OwnTasks(employee, HRName)
      pendingCount == Len(SelectSeq(hrTasks, LAMBDA t : t.status = "pending"))
  IN Ok([complete |-> TRUE,
         log |-> addLog(log, HRName, "reflect",
                        "HR onboarding: " \o DecimalString(Len(hrTasks))
                          \o " tasks created, " \o DecimalString(pendingCount) \o " pending")])

\* ------------------------------------------------------------------------
\* ITSetupAgent
\* ------------------------------------------------------------------------
ITName == "IT Setup Agent"

roleProfiles ==
  [engineering |->
     [software |-> <<"IDE License", "GitHub Enterprise", "Jira", "Slack", "AWS Console">>,
      hardware |-> <<"MacBook Pro 16\"", "External Monitor 27\"", "Mechanical Keyboard",
                     "USB-C Hub">>,
      access |-> <<"VPN", "CI/CD Pipeline", "Staging Servers", "Code Repositories">>],
   design |->
     [software |-> <<"Figma Enterprise", "Adobe Creative Suite", "Slack", "Jira">>,
      hardware |-> <<"MacBook Pro 16\"", "External Monitor 32\" 4K", "Wacom Tablet">>,
      access |-> <<"VPN", "Design Asset Library", "Brand Portal">>],
   product |->
     [software |-> <<"Jira", "Confluence", "Slack", "Amplitude", "Mixpanel">>,
      hardware |-> <<"MacBook Pro 14\"", "External Monitor 27\"">>,
      access |-> <<"VPN", "Analytics Dashboard", "Customer Feedback Portal">>],
   sales |->
     [software |-> <<"Salesforce", "Slack", "Zoom Pro", "DocuSign">>,
      hardware |-> <<"MacBook Air", "External Monitor 24\"">>,
      access |-> <<"VPN", "CRM", "Sales Playbook">>],
   default |->
     [software |-> <<"Slack", "Google Workspace", "Zoom">>,
      hardware |-> <<"Laptop", "External Monitor 24\"">>,
      access |-> <<"VPN", "Company Intranet">>]]

\* `(employee.department || fallback).toLowerCase()`
DepartmentKey(employee, fallback) ==
  LET d == IF Truthy(employee, "department") THEN employee["department"] ELSE Str(fallback)
  IN IF IsStr(d) THEN Ok(toLowerCase(d.str))
     ELSE Threw("(employee.department || ...).toLowerCase is not a function")

ITPerceive(employee) ==
  LET key == DepartmentKey(employee, "default")
  IN IF key.threw THEN key
     ELSE Ok([profile |-> LookupOrDefault(roleProfiles, key.value),
              department |-> key.value,
              existingAccounts |-> OrEmptyArray(employee, "accounts"),
              existingHardware |-> OrEmptyArray(employee, "hardware")])

\* `${employee[k]?.toLowerCase()}` inside the template literal
NamePart(employee, k) ==
  IF ~Has(employee, k) \/ IsNull(employee[k]) THEN Ok("undefined")
  ELSE IF IsStr(employee[k]) THEN Ok(toLowerCase(employee[k].str))
  ELSE Threw("employee." \o k \o "?.toLowerCase is not a function")

ITDecide(employee, itPerception) ==
  LET profile == itPerception.profile
      existingAccounts == itPerception.existingAccounts
      existingHardware == itPerception.existingHardware
      needEmail == ~Truthy(employee, "emailProvisioned")
      first == NamePart(employee, "firstName")
      last == NamePart(employee, "lastName")
      neededSoftware == SelectSeq(profile.software,
                                  LAMBDA sw : sw \notin Range(existingAccounts.arr))
      neededHardware == SelectSeq(profile.hardware,
                                  LAMBDA hw : hw \notin Range(existingHardware.arr))
  IN IF needEmail /\ first.threw THEN first
     ELSE IF needEmail /\ last.threw THEN last
     ELSE IF IsInherited(profile)
       THEN Threw("Cannot read properties of undefined (reading 'filter')")
     ELSE IF ~IsArr(existingAccounts)
       THEN Threw("existingAccounts.includes is not a function")
     ELSE IF ~IsArr(existingHardware)
       THEN Threw("existingHardware.includes is not a function")
     ELSE Ok((IF needEmail
                THEN <<[type |-> "provision_email",
                        email |-> first.value \o "." \o last.value \o "@company.com"]>>
                ELSE <<>>)
             \o (IF Len(neededSoftware) > 0
                   THEN <<[type |-> "assign_software", software |-> neededSoftware]>>
                   ELSE <<>>)
             \o (IF Len(neededHardware) > 0
                   THEN <<[type |-> "request_hardware", hardware |-> neededHardware]>>
                   ELSE <<>>)
             \o <<[type |-> "configure_access", access |-> profile.access]>>)

ITEmailTask(email) ==
  [id |-> "it-email-setup", agent |-> ITName, type |-> "auto_provisioned",
   title |-> "Email provisioned: " \o email, status |-> "completed",
   priority |-> "high", category |-> "IT Accounts"]

\* a license task whose id leaves the software name out
ITSoftwareTaskNoSlug(sw) ==
  [id |-> "it-sw-", agent |-> ITName,
   type |-> "auto_provisioned", title |-> "License assigned: " \o sw,
   status |-> "completed", priority |-> "medium", category |-> "Software Licenses"]

ITSoftwareTask(sw) ==
  [id |-> "it-sw-" \o ReplaceRuns(toLowerCase(sw), " ", "-"), agent |-> ITName,
   type |-> "auto_provisioned", title |-> "License assigned: " \o sw,
   status |-> "completed", priority |-> "medium", category |-> "Software Licenses"]

ITHardwareTask(hw) ==
  [id |-> "it-hw-" \o ReplaceRuns(toLowerCase(hw), " \"", "-"), agent |-> ITName,
   type |-> "hardware_request", title |-> "Hardware: " \o hw, status |-> "in_progress",
   priority |-> "high", dueInDays |-> 5, category |-> "Hardware"]

ITAccessTask(acc) ==
  [id |-> "it-access-" \o ReplaceRuns(toLowerCase(acc), " /", "-"), agent |-> ITName,
   type |-> "auto_provisioned", title |-> "Access granted: " \o acc,
   status |-> "completed", priority |-> "high", category |-> "Security & Access"]

\* one case of the switch in ITSetupAgent.act; st = [employee, log]
ITActOne(st, action) ==
  CASE action.type = "provision_email" ->
         [employee |-> PushTasks(SetProp(SetProp(st.employee, "emailProvisioned", Bool(TRUE)),
                                         "email", Str(action.email)),
                                 <<ITEmailTask(action.email)>>),
          log |-> addLog(st.log, ITName, "provision_email", "Created email: " \o action.email)]
    [] action.type = "assign_software" ->
         LET pushed == PushTasks(st.employee,
                         [i \in 1..Len(action.software) |-> ITSoftwareTask(action.software[i])])
         IN [employee |-> SetProp(pushed, "accounts",
                            Arr(OrEmptyArray(pushed, "accounts").arr \o action.software)),
             log |-> addLog(st.log, ITName, "assign_software",
                            "Assigned " \o DecimalString(Len(action.software)) \o " licenses")]
    [] action.type = "request_hardware" ->
         [employee |-> PushTasks(st.employee,
                         [i \in 1..Len(action.hardware) |-> ITHardwareTask(action.hardware[i])]),
          log |-> addLog(st.log, ITName, "request_hardware",
                         "Requested " \o DecimalString(Len(action.hardware))
                           \o " hardware items")]
    [] action.type = "configure_access" ->
         [employee |-> PushTasks(st.employee,
                         [i \in 1..Len(action.access) |-> ITAccessTask(action.access[i])]),
          log |-> addLog(st.log, ITName, "configure_access",
                         "Configured " \o DecimalString(Len(action.access))
                           \o " access grants")]
    [] OTHER -> st

ITReflect(employee, log) ==
  LET itTasks == OwnTasks(employee, ITName)
      auto == Len(SelectSeq(itTasks, LAMBDA t : t.type = "auto_provisioned"))
      pending == Len(SelectSeq(itTasks, LAMBDA t : t.status # "completed"))
  IN Ok([complete |-> TRUE,
         log |-> addLog(log, ITName, "reflect",
                        "IT setup: " \o DecimalString(auto) \o " auto-provisioned, "
                          \o DecimalString(pending) \o " awaiting fulfillment")])

\* ------------------------------------------------------------------------
\* TrainingAgent
\* ------------------------------------------------------------------------
TrainingName == "Training Agent"

companyWideModules ==
  << [id |-> "company-overview", title |-> "Company Overview & Mission"],
     [id |-> "security-awareness", title |-> "Security Awareness Training"],
     [id |-> "dei-training", title |-> "Diversity, Equity & Inclusion"],
     [id |-> "tools-intro", title |-> "Internal Tools & Systems Overview"] >>

roleModules ==
  [engineering |->
     << [id |-> "eng-architecture", title |-> "System Architecture Deep Dive"],
        [id |-> "eng-git-workflow", title |-> "Git Workflow & Code Review Process"],
        [id |-> "eng-ci-cd", title |-> "CI/CD Pipeline Walkthrough"],
        [id |-> "eng-oncall", title |-> "On-Call Procedures & Incident Response"] >>,
   design |->
     << [id |-> "des-system", title |-> "Design System & Brand Guidelines"],
        [id |-> "des-research", title |-> "User Research Methods"],
        [id |-> "des-accessibility", title |-> "Accessibility Standards (WCAG)"] >>,
   product |->
     << [id |-> "pm-roadmap", title |-> "Product Roadmap & Strategy"],
        [id |-> "pm-analytics", title |-> "Analytics & Data-Driven Decisions"],
        [id |-> "pm-customer", title |-> "Customer Journey Mapping"] >>,
   sales |->
     << [id |-> "sales-product", title |-> "Product Knowledge Bootcamp"],
        [id |-> "sales-crm", title |-> "CRM & Sales Tools Training"],
        [id |-> "sales-pitch", title |-> "Sales Pitch & Demo Skills"] >>,
   default |-> << >>]

TrainingPerceive(employee) ==
  LET key == DepartmentKey(employee, "default")
  IN IF key.threw THEN key
     ELSE Ok([companyWideModules |-> companyWideModules,
              roleModules |-> LookupOrDefault(roleModules, key.value),
              completedModules |-> OrEmptyArray(employee, "completedTraining"),
              department |-> key.value])

\* the pool draws completedTraining from arrays and numbers only
TrainingDecide(employee, trainingPerception) ==
  LET rolePath == trainingPerception.roleModules
      completedModules == trainingPerception.completedModules
      allModules == trainingPerception.companyWideModules \o rolePath
      pendingModules == SelectSeq(allModules,
                                  LAMBDA m : m.id \notin Range(completedModules.arr))
  IN IF IsInherited(rolePath) THEN Threw("roleModules is not iterable")
     ELSE IF Len(allModules) > 0 /\ ~IsArr(completedModules)
       THEN Threw("completedModules.includes is not a function")
     ELSE Ok((IF Len(pendingModules) > 0
                THEN <<[type |-> "assign_modules", modules |-> pendingModules]>>
                ELSE <<>>)
             \o (IF ~Truthy(employee, "managerMeetingScheduled")
                   THEN <<[type |-> "schedule_manager_meeting"]>>
                   ELSE <<>>)
             \o (IF ~Truthy(employee, "teamIntroScheduled")
                   THEN <<[type |-> "schedule_team_intro"]>>
                   ELSE <<>>))

\* Array.prototype.slice(from, to) with 0-based bounds, to exclusive
Slice(q, from, to) ==
  SubSeq(q, from + 1, IF to < Len(q) THEN to ELSE Len(q))

WeekOneTask(mod) ==
  [id |-> "training-" \o mod.id, agent |-> TrainingName, type |-> "training_module",
   title |-> mod.title, status |-> "pending", priority |-> "high", dueInDays |-> 7,
   category |-> "Week 1 Training"]

WeekTwoTask(mod) ==
  [id |-> "training-" \o mod.id, agent |-> TrainingName, type |-> "training_module",
   title |-> mod.title, status |-> "pending", priority |-> "medium", dueInDays |-> 14,
   category |-> "Week 2 Training"]

ManagerMeetingTask ==
  [id |-> "training-manager-1on1", agent |-> TrainingName, type |-> "meeting",
   title |-> "1:1 Meeting with Manager", status |-> "pending", priority |-> "high",
   dueInDays |-> 2, category |-> "Meetings"]

TeamIntroTask ==
  [id |-> "training-team-intro", agent |-> TrainingName, type |-> "meeting",
   title |-> "Team Introduction Session", status |-> "pending", priority |-> "medium",
   dueInDays |-> 3, category |-> "Meetings"]

\* one case of the switch in TrainingAgent.act; st = [employee, log]
TrainingActOne(st, action) ==
  CASE action.type = "assign_modules" ->
         LET weekOne == Slice(action.modules, 0, 4)
             weekTwo == Slice(action.modules, 4, Len(action.modules))
         IN [employee |-> PushTasks(st.employee,
                            [i \in 1..Len(weekOne) |-> WeekOneTask(weekOne[i])]
                            \o [i \in 1..Len(weekTwo) |-> WeekTwoTask(weekTwo[i])]),
             log |-> addLog(st.log, TrainingName, "assign_modules",
                            "Assigned " \o DecimalString(Len(action.modules))
                              \o " training modules")]
    [] action.type = "schedule_manager_meeting" ->
         [employee |-> PushTasks(SetProp(st.employee, "managerMeetingScheduled", Bool(TRUE)),
                                 <<ManagerMeetingTask>>),
          log |-> addLog(st.log, TrainingName, "schedule_meeting", "Scheduled manager 1:1")]
    [] action.type = "schedule_team_intro" ->
         [employee |-> PushTasks(SetProp(st.employee, "teamIntroScheduled", Bool(TRUE)),
                                 <<TeamIntroTask>>),
          log |-> addLog(st.log, TrainingName, "schedule_meeting",
                         "Scheduled team introduction")]
    [] OTHER -> st

TrainingReflect(employee, log) ==
  LET trainingTasks == OwnTasks(employee, TrainingName)
      modules == Len(SelectSeq(trainingTasks, LAMBDA t : t.type = "training_module"))
      meetings == Len(SelectSeq(trainingTasks, LAMBDA t : t.type = "meeting"))
  IN Ok([complete |-> TRUE,
         log |-> addLog(log, TrainingName, "reflect",
                        "Training plan: " \o DecimalString(modules) \o " modules + "
                          \o DecimalString(meetings) \o " meetings assigned")])

\* ------------------------------------------------------------------------
\* BuddyAgent (ratings and scores are kept in tenths)
\* ------------------------------------------------------------------------
BuddyName == "Buddy Agent"

\* bonus of a candidate of the employee's own department: +3
SameDepartmentBonus == 30

buddyPool ==
  << [id |-> "b1", name |-> "Sarah Chen", department |-> "engineering",
      seniority |-> "senior", rating |-> 49],
     [id |-> "b2", name |-> "Marcus Johnson", department |-> "engineering",
      seniority |-> "lead", rating |-> 48],
     [id |-> "b3", name |-> "Priya Patel", department |-> "design",
      seniority |-> "senior", rating |-> 49],
     [id |-> "b4", name |-> "Alex Rivera", department |-> "product",
      seniority |-> "senior", rating |-> 47],
     [id |-> "b5", name |-> "Jordan Kim", department |-> "sales",
      seniority |-> "lead", rating |-> 48],
     [id |-> "b6", name |-> "Emily Thompson", department |-> "engineering",
      seniority |-> "staff", rating |-> 50],
     [id |-> "b7", name |-> "David O'Brien", department |-> "product",
      seniority |-> "director", rating |-> 46],
     [id |-> "b8", name |-> "Lisa Nakamura", department |-> "design",
      seniority |-> "lead", rating |-> 49] >>

\* a scoring that leaves the department out: the rating alone
ScoredByRating(buddy, department) ==
  [id |-> buddy.id, name |-> buddy.name, department |-> buddy.department,
   seniority |-> buddy.seniority, rating |-> buddy.rating, score |-> buddy.rating]

\* the `scored` entry of one pool member
Scored(buddy, department) ==
  [id |-> buddy.id, name |-> buddy.name, department |-> buddy.department,
   seniority |-> buddy.seniority, rating |-> buddy.rating,
   score |-> buddy.rating + (IF buddy.department = department THEN SameDepartmentBonus ELSE 0)]

\* insertion of x into a list sorted by descending score, after its equals
RECURSIVE InsertByScore(_, _)
InsertByScore(sorted, x) ==
  IF sorted = <<>> THEN <<x>>
  ELSE IF x.score > Head(sorted).score THEN <<x>> \o sorted
  ELSE <<Head(sorted)>> \o InsertByScore(Tail(sorted), x)

\* scored.sort((a, b) => b.score - a.score): stable, descending
RECURSIVE SortByScore(_)
SortByScore(q) ==
  IF q = <<>> THEN <<>>
  ELSE InsertByScore(SortByScore(SubSeq(q, 1, Len(q) - 1)), q[Len(q)])

\* the buddy object stored on the employee
BuddyObject(c) ==
  Obj([id |-> Str(c.id), name |-> Str(c.name), department |-> Str(c.department),
       seniority |-> Str(c.seniority), rating |-> Num(c.rating), score |-> Num(c.score)])

BuddyPerceive(employee) ==
  LET key == DepartmentKey(employee, "")
      scored == [i \in 1..Len(buddyPool) |-> Scored(buddyPool[i], key.value)]
  IN IF key.threw THEN key
     ELSE Ok([candidates |-> Slice(SortByScore(scored), 0, 3),
              alreadyAssigned |-> Truthy(employee, "buddy")])

BuddyDecide(employee, buddyPerception) ==
  Ok((IF ~buddyPerception.alreadyAssigned
        THEN <<[type |-> "assign_buddy", buddy |-> buddyPerception.candidates[1]]>>
        ELSE <<>>)
     \o (IF ~Truthy(employee, "checkInsScheduled")
           THEN <<[type |-> "schedule_check_ins"]>>
           ELSE <<>>))

BuddyIntroTask(buddy) ==
  [id |-> "buddy-intro-meeting", agent |-> BuddyName, type |-> "meeting",
   title |-> "Meet your buddy: " \o buddy.name, status |-> "pending",
   priority |-> "high", dueInDays |-> 2, category |-> "Buddy Program"]

checkIns ==
  << [day |-> 7, title |-> "Week 1 Check-in with Buddy"],
     [day |-> 14, title |-> "Week 2 Check-in with Buddy"],
     [day |-> 30, title |-> "Day 30 Review with Buddy & Manager"],
     [day |-> 60, title |-> "Day 60 Mid-Point Review"],
     [day |-> 90, title |-> "Day 90 Final Onboarding Review"] >>

CheckInTask(ci) ==
  [id |-> "buddy-checkin-day" \o DecimalString(ci.day), agent |-> BuddyName,
   type |-> "check_in", title |-> ci.title, status |-> "pending",
   priority |-> (IF ci.day <= 14 THEN "medium" ELSE "low"), dueInDays |-> ci.day,
   category |-> "Buddy Program"]

\* one case of the switch in BuddyAgent.act; st = [employee, log]
BuddyActOne(st, action) ==
  CASE action.type = "assign_buddy" ->
         [employee |-> PushTasks(SetProp(st.employee, "buddy", BuddyObject(action.buddy)),
                                 <<BuddyIntroTask(action.buddy)>>),
          log |-> addLog(st.log, BuddyName, "assign_buddy",
                         "Matched with buddy: " \o action.buddy.name)]
    [] action.type = "schedule_check_ins" ->
         [employee |-> PushTasks(SetProp(st.employee, "checkInsScheduled", Bool(TRUE)),
                                 [i \in 1..Len(checkIns) |-> CheckInTask(checkIns[i])]),
          log |-> addLog(st.log, BuddyName, "schedule_check_ins",
                         "Scheduled 5 check-ins over 90 days")]
    [] OTHER -> st

\* `${buddy.name}` and `${buddy.score?.toFixed(1)}` of the reflect detail;
\* the pool draws buddy from null and objects only
BuddyReflect(employee, log) ==
  LET buddy == employee["buddy"]
      name == IF Has(buddy.obj, "name") /\ IsStr(buddy.obj["name"])
                THEN buddy.obj["name"].str ELSE "undefined"
      score == IF ~Has(buddy.obj, "score") \/ IsNull(buddy.obj["score"]) THEN "undefined"
               ELSE toFixed1(buddy.obj["score"].num)
  IN IF ~Truthy(employee, "buddy")
       THEN Ok([complete |-> TRUE,
                log |-> addLog(log, BuddyName, "reflect", "No buddy assignment needed")])
     ELSE IF Has(buddy.obj, "score") /\ ~IsNull(buddy.obj["score"])
             /\ ~IsNum(buddy.obj["score"])
       THEN Threw("buddy.score?.toFixed is not a function")
     ELSE Ok([complete |-> TRUE,
              log |-> addLog(log, BuddyName, "reflect",
                             "Buddy assigned: " \o name \o " (score: " \o score \o ")")])

\* ------------------------------------------------------------------------
\* The four agents behind the BaseAgent contract
\* ------------------------------------------------------------------------
\* Orchestrator: const agentNames = ['hr', 'it', 'training', 'buddy']
agentNames == <<"hr", "it", "training", "buddy">>

Agents == Range(agentNames)

\* this.name of the agent registered under a key of Orchestrator.agents
AgentName(a) ==
  CASE a = "hr" -> HRName
    [] a = "it" -> ITName
    [] a = "training" -> TrainingName
    [] a = "buddy" -> BuddyName

Perceive(a, employee) ==
  CASE a = "hr" -> HRPerceive(employee)
    [] a = "it" -> ITPerceive(employee)
    [] a = "training" -> TrainingPerceive(employee)
    [] a = "buddy" -> BuddyPerceive(employee)

Decide(a, employee, perception) ==
  CASE a = "hr" -> HRDecide(employee, perception)
    [] a = "it" -> ITDecide(employee, perception)
    [] a = "training" -> TrainingDecide(employee, perception)
    [] a = "buddy" -> BuddyDecide(employee, perception)

ActOne(a, st, action) ==
  CASE a = "hr" -> HRActOne(st, action)
    [] a = "it" -> ITActOne(st, action)
    [] a = "training" -> TrainingActOne(st, action)
    [] a = "buddy" -> BuddyActOne(st, action)

\* `for (const action of actions) switch (action.type) ...`; st = [employee, log]
RECURSIVE ActFrom(_, _, _, _)
ActFrom(a, st, actions, i) ==
  IF i > Len(actions) THEN st
  ELSE ActFrom(a, ActOne(a, st, actions[i]), actions, i + 1)

\* act(context, actions): the employee and the log after all actions
Act(a, employee, log, actions) ==
  ActFrom(a, [employee |-> EnsureTasks(employee), log |-> log], actions, 1)

Reflect(a, employee, log) ==
  CASE a = "hr" -> HRReflect(employee, log)
    [] a = "it" -> ITReflect(employee, log)
    [] a = "training" -> TrainingReflect(employee, log)
    [] a = "buddy" -> BuddyReflect(employee, log)

\* BaseAgent.run: const MAX_ITERATIONS = 5
MAX_ITERATIONS == 5

\* ------------------------------------------------------------------------
\* Orchestrator: pure parts
\* ------------------------------------------------------------------------
\* the employee of the context built at the top of onboard
NewContextEmployee(data) ==
  ("tasks" :> Arr(<<>>))
  @@ ("documents" :> OrEmptyArray(data, "documents"))
  @@ ("accounts" :> OrEmptyArray(data, "accounts"))
  @@ ("hardware" :> OrEmptyArray(data, "hardware"))
  @@ ("onboardingStarted" :> Str("now"))
  @@ data

\* the employee of copyFor(): a spread of context.employee with a fresh
\* tasks array and cloned accounts and hardware arrays
copyFor(employee) ==
  ("tasks" :> Arr(<<>>))
  @@ ("accounts" :> Arr(employee["accounts"].arr))
  @@ ("hardware" :> Arr(employee["hardware"].arr))
  @@ employee

\* a copyFor() that hands every agent the context's own employee object
CopyRefShared(a) == "ctx"

\* the object that holds the employee copyFor() makes for agent a: a new
\* object per call
CopyRef(a) == a

\* a merge that visits the results in the order the runs settled
ResultsInSettleOrder(settleOrder) == settleOrder

\* results of Promise.allSettled sit at the index of their promise, and
\* results.forEach visits them in that order
resultsOrder(settleOrder) == agentNames

\* bucket of one task in buildTimeline (`task.dueInDays ? ... : 'Immediate'`)
Bucket(task) ==
  IF Has(task, "dueInDays") /\ task.dueInDays # 0
    THEN IF task.dueInDays <= 3 THEN "Day 1-3"
         ELSE IF task.dueInDays <= 7 THEN "Week 1"
         ELSE IF task.dueInDays <= 14 THEN "Week 2"
         ELSE IF task.dueInDays <= 30 THEN "Month 1"
         ELSE "Month 2-3"
    ELSE "Immediate"

TimelineEntry(task) ==
  [title |-> task.title, category |-> task.category, status |-> task.status,
   agent |-> task.agent]

\* an iteration that puts the entry at the front of its bucket
TimelineUnshift(tl, task) ==
  LET bucket == Bucket(task)
      before == IF Has(tl, bucket) THEN tl[bucket] ELSE <<>>
  IN SetProp(tl, bucket, <<TimelineEntry(task)>> \o before)

\* one iteration of the loop of buildTimeline
TimelinePush(tl, task) ==
  LET bucket == Bucket(task)
      before == IF Has(tl, bucket) THEN tl[bucket] ELSE <<>>
  IN SetProp(tl, bucket, Append(before, TimelineEntry(task)))

\* tl after the loop has handled tasks[lo..hi], in that order (the range is
\* halved rather than walked, which keeps the evaluation shallow)
RECURSIVE buildTimelineFrom(_, _, _, _)
buildTimelineFrom(tl, tasks, lo, hi) ==
  IF lo > hi THEN tl
  ELSE IF lo = hi THEN TimelinePush(tl, tasks[lo])
  ELSE LET mid  == (lo + hi) \div 2
           left == buildTimelineFrom(tl, tasks, lo, mid)
       IN  IF DOMAIN left = {}
           THEN buildTimelineFrom(EmptyObject, tasks, mid + 1, hi)
           ELSE buildTimelineFrom(left, tasks, mid + 1, hi)

buildTimeline(tasks) == buildTimelineFrom(EmptyObject, tasks, 1, Len(tasks))

\* tasks.filter((t) => t.status === s).length
CountStatus(tasks, s) == Len(SelectSeq(tasks, LAMBDA t : t.status = s))

\* `${v}` of a property in a template literal
TemplateString(o, k) ==
  IF ~Has(o, k) THEN "undefined"
  ELSE CASE IsStr(o[k]) -> o[k].str
         [] IsNum(o[k]) -> DecimalString(o[k].num)
         [] IsNull(o[k]) -> "null"
         [] OTHER -> "[object]"

\* one entry of agentSummaries
AgentSummary(logs) ==
  [totalActions |-> Len(logs),
   status |-> IF \E l \in Range(logs) : l.action = "error" THEN "error" ELSE "success",
   keyEvents |-> LET kept == SelectSeq(logs, LAMBDA l : l.action \notin {"start", "complete"})
                 IN [i \in 1..Len(kept) |-> kept[i].detail]]

\* buildSummary (the elapsed time is left out); logsOf[name] is the array
\* agentLogs[name] holds
buildSummary(employee, logsOf) ==
  LET tasks == employee["tasks"].arr
  IN [employeeName |-> TemplateString(employee, "firstName") \o " "
                         \o TemplateString(employee, "lastName"),
      department |-> IF Has(employee, "department") THEN employee["department"] ELSE Null,
      totalTasks |-> Len(tasks),
      completed |-> CountStatus(tasks, "completed"),
      inProgress |-> CountStatus(tasks, "in_progress"),
      pending |-> CountStatus(tasks, "pending"),
      agentSummaries |-> [name \in DOMAIN logsOf |-> AgentSummary(logsOf[name])]]

\* ------------------------------------------------------------------------
\* Employees handed to onboard
\* ------------------------------------------------------------------------
\* how much of an agent's work the employee already carries: nothing (the
\* properties are absent), a part (falsy flags, MaxHeld items per list),
\* everything, or a value of the wrong type that makes the agent throw
\* "" stands for an employee without a department property
NoDepartment == ""

DepartmentChoices == {NoDepartment, "Engineering", "marketing", "constructor", "toString"}

Prefix(q, n) == SubSeq(q, 1, IF n < Len(q) THEN n ELSE Len(q))

DepartmentProps(d) == IF d = NoDepartment THEN EmptyObject ELSE [department |-> Str(d)]

\* the profile and the role modules the agents pick for department d, the
\* default ones where the lookup yields no table entry
ProfileFor(d) ==
  LET found == LookupOrDefault(roleProfiles, toLowerCase(IF d = NoDepartment THEN "default" ELSE d))
  IN IF IsInherited(found) THEN roleProfiles["default"] ELSE found

ModulesFor(d) ==
  LET found == LookupOrDefault(roleModules, toLowerCase(IF d = NoDepartment THEN "default" ELSE d))
  IN companyWideModules \o (IF IsInherited(found) THEN <<>> ELSE found)

DocumentObjects(docs) == [i \in 1..Len(docs) |-> [id |-> docs[i].id]]

ModuleIds(mods) == [i \in 1..Len(mods) |-> mods[i].id]

HRProps(level) ==
  CASE level = "none" -> EmptyObject
    [] level = "some" ->
         [documents |-> Arr(DocumentObjects(Prefix(requiredDocs, MaxHeld))),
          policiesAcknowledged |-> Arr(Prefix(policies, MaxHeld)),
          benefitsEnrollmentStarted |-> Bool(FALSE)]
    [] level = "all" ->
         [documents |-> Arr(DocumentObjects(requiredDocs)),
          policiesAcknowledged |-> Arr(policies),
          benefitsEnrollmentStarted |-> Bool(TRUE)]
    [] level = "bad" -> [policiesAcknowledged |-> Num(1)]

ITProps(level, d) ==
  CASE level = "none" -> EmptyObject
    [] level = "some" ->
         [accounts |-> Arr(Prefix(ProfileFor(d).software, MaxHeld)),
          hardware |-> Arr(Prefix(ProfileFor(d).hardware, MaxHeld)),
          emailProvisioned |-> Bool(FALSE),
          email |-> Null]
    [] level = "all" ->
         [accounts |-> Arr(ProfileFor(d).software),
          hardware |-> Arr(ProfileFor(d).hardware),
          emailProvisioned |-> Bool(TRUE),
          email |-> Str("a.lopez@company.com")]
    [] level = "bad" -> [firstName |-> Num(42)]

TrainingProps(level, d) ==
  CASE level = "none" -> EmptyObject
    [] level = "some" ->
         [completedTraining |-> Arr(ModuleIds(Prefix(ModulesFor(d), MaxHeld))),
          managerMeetingScheduled |-> Bool(FALSE),
          teamIntroScheduled |-> Bool(FALSE)]
    [] level = "all" ->
         [completedTraining |-> Arr(ModuleIds(ModulesFor(d))),
          managerMeetingScheduled |-> Bool(TRUE),
          teamIntroScheduled |-> Bool(TRUE)]
    [] level = "bad" -> [completedTraining |-> Num(1)]

BuddyProps(level) ==
  CASE level = "none" -> EmptyObject
    [] level = "some" -> [buddy |-> Null, checkInsScheduled |-> Bool(FALSE)]
    [] level = "all" ->
         [buddy |-> Obj([id |-> Str("b3"), name |-> Str("Priya Patel")]),
          checkInsScheduled |-> Bool(TRUE)]
    [] level = "bad" -> [buddy |-> Obj([name |-> Str("Pat"), score |-> Str("high")])]

MkEmployee(d, hr, it, tr, bu) ==
  HRProps(hr) @@ ITProps(it, d) @@ TrainingProps(tr, d) @@ BuddyProps(bu)
  @@ DepartmentProps(d) @@ [firstName |-> Str("Ana"), lastName |-> Str("Lopez")]

\* one level per agent (HR, IT, Training, Buddy): every mix of untouched and
\* ill-typed employees, and every mix of partly and fully served ones
LevelVectors ==
  [1..4 -> {"none", "bad"}] \cup [1..4 -> {"some", "all"}]

InputEmployees ==
  {MkEmployee(d, lv[1], lv[2], lv[3], lv[4]) :
     d \in DepartmentChoices, lv \in LevelVectors}

\* ------------------------------------------------------------------------
\* Task lists handed to buildTimeline on its own
\* ------------------------------------------------------------------------
\* upper ends of Day 1-3, Week 1, Week 2 and Month 1 in buildTimeline
BucketBoundaries == {3, 7, 14, 30}

\* the days tried: 0, every boundary, and up to MaxOver days past each
DueChoices == {b + k : b \in {0} \cup BucketBoundaries, k \in 0..MaxOver}

\* the i-th task of a list, without dueInDays or with d days
TimelineTask(i, d) ==
  LET base == [id |-> "task-" \o DecimalString(i), agent |-> HRName, type |-> "meeting",
               title |-> "Task " \o DecimalString(i), status |-> "pending",
               priority |-> "low", category |-> "Meetings"]
  IN IF d < 0 THEN base ELSE ("dueInDays" :> d) @@ base

\* all lists of n tasks; -1 stands for a task without dueInDays
TaskListsOfLen(n) ==
  {[i \in 1..n |-> TimelineTask(i, due[i])] : due \in [1..n -> {-1} \cup DueChoices]}

TaskLists == UNION {TaskListsOfLen(n) : n \in 0..MaxTasks}

\* ------------------------------------------------------------------------
\* State
\* ------------------------------------------------------------------------
VARIABLES
  phase,         \* where onboard stands: "idle", "awaiting" (allSettled), "returned"
  employeeData,  \* the argument of the onboard call
  heap,          \* employee objects: "ctx" is context.employee, the others are copies
  status,        \* this.status of each agent
  log,           \* this.log of each agent
  run,           \* activation of run() of each agent
  results,       \* outcome of each run() promise
  settled,       \* the agents in the order their run() settled
  plan,          \* the value onboard returned
  tlTasks,       \* argument of a buildTimeline call made on its own
  tlIdx,         \* tasks of tlTasks the loop of buildTimeline has handled
  timeline,      \* the timeline that call has built so far
  ag,            \* one BaseAgent instance run on its own, call after call
  clf,           \* a profile handed to ClfModel.classify and its result
  store          \* the employee store and the last response of the routes

vars ==
  <<phase, employeeData, heap, status, log, run, results, settled, plan,
    tlTasks, tlIdx, timeline, ag, clf, store>>

orchVars == <<phase, employeeData, heap, status, log, run, results, settled, plan>>

tlVars == <<tlTasks, tlIdx, timeline>>

\* what the Orchestrator's own steps leave alone
besideOrch == <<tlVars, ag, clf, store>>

Refs == {"ctx"} \cup Agents

IdleRun ==
  [pc |-> "idle", i |-> 0, employee |-> "ctx", perception |-> EmptyObject,
   pending |-> Ok(EmptyObject)]

NoPlan == EmptyObject

\* the Orchestrator after its constructor, no call made yet
OrchestratorInit ==
  /\ phase = "idle"
  /\ employeeData = EmptyObject
  /\ heap = [r \in Refs |-> EmptyObject]
  /\ status = [a \in Agents |-> "idle"]
  /\ log = [a \in Agents |-> <<>>]
  /\ run = [a \in Agents |-> IdleRun]
  /\ results = [a \in Agents |-> [status |-> "pending"]]
  /\ settled = <<>>
  /\ plan = NoPlan

\* a BaseAgent after its constructor: status idle, empty log; kind names the
\* subclass, "any" standing for a subclass whose phases do whatever they like
IdleAgent(k) ==
  [kind |-> k, status |-> "idle", log |-> <<>>, pc |-> "idle", i |-> 0,
   employee |-> EmptyObject, perception |-> EmptyObject, actions |-> <<>>,
   pending |-> Ok(EmptyObject), complete |-> FALSE, runs |-> 0,
   outcome |-> [status |-> "pending"]]

\* classify not called
IdleClf == [pc |-> "idle"]

\* `const employees = new Map()`, no request served yet
EmptyStore == [employees |-> EmptyObject, request |-> [route |-> "none"],
               response |-> [code |-> 0]]

\* the parts of the state a specification does not exercise stay as built
TimelineIdle ==
  /\ tlTasks = <<>>
  /\ tlIdx = 0
  /\ timeline = EmptyObject

AgentIdle == ag = IdleAgent("any")

ClfIdle == clf = IdleClf

StoreIdle == store = EmptyStore

Init ==
  /\ OrchestratorInit
  /\ TimelineIdle
  /\ AgentIdle
  /\ ClfIdle
  /\ StoreIdle

\* ------------------------------------------------------------------------
\* Orchestrator.onboard up to the await: the context, then for each agent
\* in turn copyFor() and the synchronous head of run() (start entry and the
\* body of perceive)
\* ------------------------------------------------------------------------
RECURSIVE LaunchFrom(_, _)
LaunchFrom(st, n) ==
  IF n > Len(agentNames) THEN st
  ELSE LET a == agentNames[n]
           ref == CopyRef(a)
           h == [st.heap EXCEPT ![ref] = copyFor(st.heap["ctx"])]
       IN LaunchFrom(
            [heap |-> h,
             status |-> [st.status EXCEPT ![a] = "running"],
             log |-> [st.log EXCEPT ![a] =
                        addLog(@, AgentName(a), "start",
                               "Agent " \o AgentName(a) \o " starting")],
             run |-> [st.run EXCEPT ![a] =
                        [pc |-> "perceive", i |-> 0, employee |-> ref,
                         perception |-> EmptyObject,
                         pending |-> Perceive(a, h[ref])]]],
            n + 1)

Onboard(data) ==
  /\ phase = "idle"
  /\ LET st == LaunchFrom([heap |-> [heap EXCEPT !["ctx"] = NewContextEmployee(data)],
                           status |-> status, log |-> log, run |-> run], 1)
     IN /\ heap' = st.heap
        /\ status' = st.status
        /\ log' = st.log
        /\ run' = st.run
  /\ phase' = "awaiting"
  /\ employeeData' = data
  /\ results' = [a \in Agents |-> [status |-> "pending"]]
  /\ settled' = <<>>
  /\ UNCHANGED <<plan, besideOrch>>

\* ------------------------------------------------------------------------
\* BaseAgent.run, one action per resumption after an await
\* ------------------------------------------------------------------------
\* catch (err): status error, error entry, rethrow
Catch(a, message) ==
  /\ status' = [status EXCEPT ![a] = "error"]
  /\ log' = [log EXCEPT ![a] = addLog(@, AgentName(a), "error", message)]
  /\ run' = [run EXCEPT ![a].pc = "settled"]
  /\ results' = [results EXCEPT ![a] = [status |-> "rejected", reason |-> [message |-> message]]]
  /\ settled' = Append(settled, a)
  /\ UNCHANGED heap

\* after the loop: status completed, complete entry, return {context, log};
\* the returned log is this.log itself
Finish(a, logNow) ==
  /\ status' = [status EXCEPT ![a] = "completed"]
  /\ log' = [log EXCEPT ![a] =
               addLog(logNow, AgentName(a), "complete",
                      "Agent " \o AgentName(a) \o " finished successfully")]
  /\ run' = [run EXCEPT ![a].pc = "settled"]
  /\ results' = [results EXCEPT ![a] =
                   [status |-> "fulfilled",
                    value |-> [context |-> [employee |-> run[a].employee], log |-> a]]]
  /\ settled' = Append(settled, a)
  /\ UNCHANGED heap

\* `await this.perceive(context)` resumes; decide is called
AfterPerceive(a) ==
  /\ phase = "awaiting"
  /\ run[a].pc = "perceive"
  /\ IF run[a].pending.threw
       THEN Catch(a, run[a].pending.message)
       ELSE /\ run' = [run EXCEPT ![a] =
                         [@ EXCEPT !.pc = "decide",
                                   !.perception = run[a].pending.value,
                                   !.pending = Decide(a, heap[run[a].employee],
                                                      run[a].pending.value)]]
            /\ UNCHANGED <<heap, status, log, results, settled>>
  /\ UNCHANGED <<phase, employeeData, plan, besideOrch>>

\* `await this.decide(perceivedCtx)` resumes; no actions ends the loop,
\* otherwise act is called
AfterDecide(a) ==
  /\ phase = "awaiting"
  /\ run[a].pc = "decide"
  /\ IF run[a].pending.threw
       THEN Catch(a, run[a].pending.message)
       ELSE IF Len(run[a].pending.value) = 0
         THEN Finish(a, addLog(log[a], AgentName(a), "no-actions",
                               "No further actions required"))
         ELSE LET acted == Act(a, heap[run[a].employee], log[a], run[a].pending.value)
              IN /\ heap' = [heap EXCEPT ![run[a].employee] = acted.employee]
                 /\ log' = [log EXCEPT ![a] = acted.log]
                 /\ run' = [run EXCEPT ![a] =
                              [@ EXCEPT !.pc = "act", !.pending = Ok(EmptyObject)]]
                 /\ UNCHANGED <<status, results, settled>>
  /\ UNCHANGED <<phase, employeeData, plan, besideOrch>>

\* `await this.act(...)` resumes; reflect is called
AfterAct(a) ==
  /\ phase = "awaiting"
  /\ run[a].pc = "act"
  /\ IF run[a].pending.threw
       THEN Catch(a, run[a].pending.message)
       ELSE LET reflection == Reflect(a, heap[run[a].employee], log[a])
            IN /\ log' = [log EXCEPT ![a] =
                            IF reflection.threw THEN @ ELSE reflection.value.log]
               /\ run' = [run EXCEPT ![a] =
                            [@ EXCEPT !.pc = "reflect",
                                      !.pending =
                                        IF reflection.threw THEN reflection
                                        ELSE Ok([complete |-> reflection.value.complete])]]
               /\ UNCHANGED <<heap, status, results, settled>>
  /\ UNCHANGED <<phase, employeeData, plan, besideOrch>>

\* `await this.reflect(context)` resumes; complete, or the next iteration
\* while i + 1 < MAX_ITERATIONS
AfterReflect(a) ==
  /\ phase = "awaiting"
  /\ run[a].pc = "reflect"
  /\ IF run[a].pending.threw
       THEN Catch(a, run[a].pending.message)
       ELSE IF run[a].pending.value.complete \/ run[a].i + 1 >= MAX_ITERATIONS
         THEN Finish(a, log[a])
         ELSE /\ run' = [run EXCEPT ![a] =
                           [@ EXCEPT !.pc = "perceive", !.i = @ + 1,
                                     !.pending = Perceive(a, heap[run[a].employee])]]
              /\ UNCHANGED <<heap, status, log, results, settled>>
  /\ UNCHANGED <<phase, employeeData, plan, besideOrch>>

\* ------------------------------------------------------------------------
\* Orchestrator.onboard after the await: merge, summary, timeline, return
\* ------------------------------------------------------------------------
\* a barrier that opens at the first settled run
AnySettled(res) == \E a \in Agents : res[a].status # "pending"

\* `await Promise.allSettled([...])`: every run() has settled
AllSettled(res) == \A a \in Agents : res[a].status # "pending"

\* an overlay that does not look at the status of the result
OverlayEvenIfRejected(ctxEmployee, name, result, h) ==
  ObjectAssign(ctxEmployee, h[run[name].employee])

\* `Object.assign(context.employee, result.value.context.employee)` of a
\* fulfilled result; a rejected one leaves the employee alone
Overlay(ctxEmployee, name, result, h) ==
  IF result.status = "fulfilled"
    THEN ObjectAssign(ctxEmployee, h[result.value.context.employee])
    ELSE ctxEmployee

\* `mergedTasks.push(...(result.value.context.employee.tasks || []))`
TasksOf(result, h) ==
  IF result.status = "fulfilled"
    THEN OrEmptyArray(h[result.value.context.employee], "tasks").arr
    ELSE <<>>

\* agentLogs[name]: the agent's own log array (alias) of a fulfilled result,
\* else a new array of one error entry with `result.reason?.message`
AgentLogOf(name, result) ==
  IF result.status = "fulfilled"
    THEN [alias |-> result.value.log]
    ELSE [own |-> <<[agent |-> name, action |-> "error",
                     detail |-> IF Has(result, "reason")
                                  THEN result.reason.message ELSE "undefined"]>>]

\* results.forEach: acc = [mergedTasks, agentLogs, heap]
RECURSIVE MergeFrom(_, _, _)
MergeFrom(acc, order, n) ==
  IF n > Len(order) THEN acc
  ELSE LET name == order[n]
           result == results[name]
       IN MergeFrom(
            [mergedTasks |-> acc.mergedTasks \o TasksOf(result, acc.heap),
             agentLogs |-> SetProp(acc.agentLogs, name, AgentLogOf(name, result)),
             heap |-> [acc.heap EXCEPT !["ctx"] = Overlay(@, name, result, acc.heap)]],
            order, n + 1)

\* the entries of an agentLogs array, given the agents' logs
LogEntries(logRef, logs) ==
  IF Has(logRef, "alias") THEN logs[logRef.alias] ELSE logRef.own

\* the rest of onboard once the results are there: the heap it leaves and
\* the plan it returns
Merged ==
  LET acc == MergeFrom([mergedTasks |-> <<>>, agentLogs |-> EmptyObject, heap |-> heap],
                       resultsOrder(settled), 1)
      employee == SetProp(acc.heap["ctx"], "tasks", Arr(acc.mergedTasks))
      logsOf == [name \in DOMAIN acc.agentLogs |-> LogEntries(acc.agentLogs[name], log)]
  IN [heap |-> [acc.heap EXCEPT !["ctx"] = employee],
      plan |-> [employee |-> employee,
                summary |-> buildSummary(employee, logsOf),
                agentLogs |-> acc.agentLogs,
                timeline |-> buildTimeline(acc.mergedTasks)]]

Merge ==
  /\ phase = "awaiting"
  /\ AllSettled(results)
  /\ heap' = Merged.heap
  /\ plan' = Merged.plan
  /\ phase' = "returned"
  /\ UNCHANGED <<employeeData, status, log, run, results, settled, besideOrch>>

Next ==
  \/ \E data \in InputEmployees : Onboard(data)
  \/ \E a \in Agents : AfterPerceive(a)
  \/ \E a \in Agents : AfterDecide(a)
  \/ \E a \in Agents : AfterAct(a)
  \/ \E a \in Agents : AfterReflect(a)
  \/ Merge

Spec == Init /\ [][Next]_vars

\* ------------------------------------------------------------------------
\* buildTimeline on an arbitrary task list, one loop iteration per step
\* ------------------------------------------------------------------------
InitTimeline ==
  /\ OrchestratorInit
  /\ tlTasks \in TaskLists
  /\ tlIdx = 0
  /\ timeline = EmptyObject
  /\ AgentIdle
  /\ ClfIdle
  /\ StoreIdle

TimelineStep ==
  /\ tlIdx < Len(tlTasks)
  /\ timeline' = TimelinePush(timeline, tlTasks[tlIdx + 1])
  /\ tlIdx' = tlIdx + 1
  /\ UNCHANGED <<tlTasks, orchVars, ag, clf, store>>

NextTimeline == TimelineStep

SpecTimeline == InitTimeline /\ [][NextTimeline]_vars

\* ------------------------------------------------------------------------
\* BaseAgent.run on one agent instance, called again and again by a caller
\* that waits for each run to settle.  The instance is one of the four
\* concrete agents, or a subclass whose phases return or throw as they like.
\* ------------------------------------------------------------------------
\* how many times run() is called on the instance
MaxRuns == 2

AgentKinds == {"any"} \cup Agents

\* this.name
KindName(k) == IF k = "any" THEN "Agent" ELSE AgentName(k)

\* the employees handed to a concrete agent: every level of its own work, on
\* departments with a profile, none at all, and one that names a member of
\* Object.prototype
AgentEmployees ==
  {MkEmployee(d, l, l, l, l) :
     d \in {NoDepartment, "Engineering", "Design", "constructor"},
     l \in {"none", "some", "all", "bad"}}

\* the contexts run() is called with
RunContexts(k) ==
  IF k = "any" THEN {EmptyObject}
  ELSE {copyFor(NewContextEmployee(data)) : data \in AgentEmployees}

\* what `await this.perceive(context)` can deliver
PerceiveOutcomes(k, employee) ==
  IF k = "any" THEN {Ok(EmptyObject), Threw("perceive failed")}
  ELSE {Perceive(k, employee)}

\* what `await this.decide(perceivedCtx)` can deliver
DecideOutcomes(k, employee, perception) ==
  IF k = "any" THEN {Ok(<<>>), Ok(<<[type |-> "work"]>>), Threw("decide failed")}
  ELSE {Decide(k, employee, perception)}

\* what `await this.act(perceivedCtx, actions)` can deliver
ActOutcomes(k, employee, logNow, actions) ==
  IF k = "any" THEN {Ok([employee |-> employee, log |-> logNow]), Threw("act failed")}
  ELSE {Ok(Act(k, employee, logNow, actions))}

\* what `await this.reflect(context)` can deliver
ReflectOutcomes(k, employee, logNow) ==
  IF k = "any"
    THEN {Ok([complete |-> TRUE, log |-> logNow]),
          Ok([complete |-> FALSE, log |-> logNow]),
          Threw("reflect failed")}
    ELSE {Reflect(k, employee, logNow)}

\* a loop condition that lets one iteration too many through
WithinLimitOffByOne(i) == i <= MAX_ITERATIONS

\* `i < MAX_ITERATIONS`, the condition of the for loop
WithinLimit(i) == i < MAX_ITERATIONS

\* a catch block that swallows the error: the run ends as if it had succeeded
AgentCatchSwallow(message) ==
  ag' = [ag EXCEPT !.status = "completed",
                   !.log = addLog(@, KindName(ag.kind), "complete",
                                  "Agent " \o KindName(ag.kind) \o " finished successfully"),
                   !.pc = "settled",
                   !.outcome = [status |-> "fulfilled"]]

\* catch (err): status error, error entry with err.message, rethrow
AgentCatch(message) ==
  ag' = [ag EXCEPT !.status = "error",
                   !.log = addLog(@, KindName(ag.kind), "error", message),
                   !.pc = "settled",
                   !.outcome = [status |-> "rejected", reason |-> [message |-> message]]]

\* after the loop: status completed, complete entry, return {context, log}
AgentFinish(logNow, i) ==
  ag' = [ag EXCEPT !.status = "completed",
                   !.log = addLog(logNow, KindName(ag.kind), "complete",
                                  "Agent " \o KindName(ag.kind) \o " finished successfully"),
                   !.pc = "settled",
                   !.i = i,
                   !.outcome = [status |-> "fulfilled"]]

\* what a call of a phase leaves to the await: that it returned, or the
\* error it threw
Settles(out) == IF out.threw THEN out ELSE Ok(EmptyObject)

\* the top of the for loop with loop variable i: leave the loop, or call
\* perceive
AgentLoopTop(i) ==
  IF WithinLimit(i)
    THEN \E out \in PerceiveOutcomes(ag.kind, ag.employee) :
           ag' = [ag EXCEPT !.pc = "perceive", !.i = i, !.pending = Settles(out),
                            !.perception = IF out.threw THEN @ ELSE out.value]
    ELSE AgentFinish(ag.log, i)

\* run(context) up to its first await: status running, start entry, i = 0,
\* perceive called
AgentRun(context) ==
  /\ ag.pc \in {"idle", "settled"}
  /\ ag.runs < MaxRuns
  /\ \E out \in PerceiveOutcomes(ag.kind, context) :
       ag' = [ag EXCEPT !.status = "running",
                        !.log = addLog(@, KindName(ag.kind), "start",
                                       "Agent " \o KindName(ag.kind) \o " starting"),
                        !.pc = "perceive", !.i = 0, !.employee = context,
                        !.perception = IF out.threw THEN EmptyObject ELSE out.value,
                        !.actions = <<>>, !.pending = Settles(out),
                        !.complete = FALSE, !.runs = @ + 1,
                        !.outcome = [status |-> "pending"]]
  /\ UNCHANGED <<orchVars, tlVars, clf, store>>

\* `await this.perceive(context)` resumes; decide is called
AgentAfterPerceive ==
  /\ ag.pc = "perceive"
  /\ IF ag.pending.threw
       THEN AgentCatch(ag.pending.message)
       ELSE \E out \in DecideOutcomes(ag.kind, ag.employee, ag.perception) :
              ag' = [ag EXCEPT !.pc = "decide", !.pending = Settles(out),
                               !.actions = IF out.threw THEN @ ELSE out.value]
  /\ UNCHANGED <<orchVars, tlVars, clf, store>>

\* `await this.decide(perceivedCtx)` resumes; no actions ends the loop,
\* otherwise act is called
AgentAfterDecide ==
  /\ ag.pc = "decide"
  /\ IF ag.pending.threw
       THEN AgentCatch(ag.pending.message)
       ELSE IF Len(ag.actions) = 0
         THEN AgentFinish(addLog(ag.log, KindName(ag.kind), "no-actions",
                                 "No further actions required"), ag.i)
         ELSE \E out \in ActOutcomes(ag.kind, ag.employee, ag.log, ag.actions) :
                ag' = [ag EXCEPT !.pc = "act",
                                 !.employee = IF out.threw THEN @ ELSE out.value.employee,
                                 !.log = IF out.threw THEN @ ELSE out.value.log,
                                 !.pending = Settles(out)]
  /\ UNCHANGED <<orchVars, tlVars, clf, store>>

\* a reflect that also marks the employee as reviewed
AgentAfterActMarking ==
  /\ ag.pc = "act"
  /\ IF ag.pending.threw
       THEN AgentCatch(ag.pending.message)
       ELSE \E out \in ReflectOutcomes(ag.kind, ag.employee, ag.log) :
              ag' = [ag EXCEPT !.pc = "reflect",
                               !.employee = SetProp(@, "reviewed", Bool(TRUE)),
                               !.log = IF out.threw THEN @ ELSE out.value.log,
                               !.complete = IF out.threw THEN @ ELSE out.value.complete,
                               !.pending = Settles(out)]
  /\ UNCHANGED <<orchVars, tlVars, clf, store>>

\* `await this.act(...)` resumes; reflect is called
AgentAfterAct ==
  /\ ag.pc = "act"
  /\ IF ag.pending.threw
       THEN AgentCatch(ag.pending.message)
       ELSE \E out \in ReflectOutcomes(ag.kind, ag.employee, ag.log) :
              ag' = [ag EXCEPT !.pc = "reflect",
                               !.log = IF out.threw THEN @ ELSE out.value.log,
                               !.complete = IF out.threw THEN @ ELSE out.value.complete,
                               !.pending = Settles(out)]
  /\ UNCHANGED <<orchVars, tlVars, clf, store>>

\* `await this.reflect(context)` resumes; break when complete, else i++ and
\* the loop condition
AgentAfterReflect ==
  /\ ag.pc = "reflect"
  /\ IF ag.pending.threw
       THEN AgentCatch(ag.pending.message)
       ELSE IF ag.complete
         THEN AgentFinish(ag.log, ag.i)
         ELSE AgentLoopTop(ag.i + 1)
  /\ UNCHANGED <<orchVars, tlVars, clf, store>>

InitAgent ==
  /\ OrchestratorInit
  /\ TimelineIdle
  /\ ag \in {IdleAgent(k) : k \in AgentKinds}
  /\ ClfIdle
  /\ StoreIdle

\* the continuations of a run that is under way
AgentResume ==
  \/ AgentAfterPerceive
  \/ AgentAfterDecide
  \/ AgentAfterAct
  \/ AgentAfterReflect

NextAgent ==
  \/ \E context \in RunContexts(ag.kind) : AgentRun(context)
  \/ AgentResume

SpecAgent == InitAgent /\ [][NextAgent]_vars

\* ------------------------------------------------------------------------
\* The employee store and the routes POST /onboard and PATCH
\* /employees/:id/tasks/:taskId.  Every await of onboard waits for a promise
\* that is already settled, so its continuations run before the server turns
\* to the next request: requests are served one after the other.
\* ------------------------------------------------------------------------
\* how many employees are onboarded
MaxEmployees == 1

\* `data.k || v`
OrDefault(data, k, v) == IF Truthy(data, k) THEN data[k] ELSE v

\* the id uuidv4() gives the n-th employee
EmployeeId(n) == "e" \o DecimalString(n)

\* createEmployee(data): the record put into the store (startDate and
\* createdAt are dates and left out)
createEmployee(id, data) ==
  [id |-> Str(id),
   firstName |-> data["firstName"],
   lastName |-> data["lastName"],
   email |-> OrDefault(data, "email", Null),
   department |-> OrDefault(data, "department", Str("default")),
   role |-> OrDefault(data, "role", Str("")),
   manager |-> OrDefault(data, "manager", Str("")),
   location |-> OrDefault(data, "location", Str("Remote")),
   documents |-> Arr(<<>>),
   accounts |-> Arr(<<>>),
   hardware |-> Arr(<<>>),
   tasks |-> Arr(<<>>),
   policiesAcknowledged |-> Arr(<<>>),
   completedTraining |-> Arr(<<>>),
   buddy |-> Null,
   onboardingPlan |-> Null]

\* the request bodies of POST /onboard: with and without a department, and
\* one without firstName
MkBody(withFirstName, d) ==
  (IF withFirstName THEN [firstName |-> Str("Ana")] ELSE EmptyObject)
  @@ DepartmentProps(d) @@ [lastName |-> Str("Lopez")]

OnboardBodies ==
  {MkBody(TRUE, d) : d \in {NoDepartment, "Engineering", "constructor"}}
  \cup {MkBody(FALSE, NoDepartment)}

\* the store entry of an employee has a plan
HasPlan(entry) == ~IsNull(entry.onboardingPlan)

\* POST /onboard up to the first await: validation, createEmployee, and the
\* call of orchestrator.onboard, which starts the four runs
StoreOnboardWithin(body, limit) ==
  /\ phase = "idle"
  /\ LET request == [route |-> "onboard", body |-> body]
         n == Cardinality(DOMAIN store.employees)
         id == EmployeeId(n + 1)
         data == createEmployee(id, body)
         st == LaunchFrom([heap |-> [heap EXCEPT !["ctx"] = NewContextEmployee(data)],
                           status |-> status, log |-> log, run |-> run], 1)
     IN IF ~(Truthy(body, "firstName") /\ Truthy(body, "lastName"))
          THEN /\ store' = [store EXCEPT !.request = request, !.response = [code |-> 400]]
               /\ UNCHANGED orchVars
          ELSE /\ n < limit
               /\ store' = [store EXCEPT
                    !.employees = SetProp(@, id, data),
                    !.request = request,
                    !.response = [code |-> 0, employeeId |-> id]]
               /\ employeeData' = data
               /\ heap' = st.heap
               /\ status' = st.status
               /\ log' = st.log
               /\ run' = st.run
               /\ results' = [a \in Agents |-> [status |-> "pending"]]
               /\ settled' = <<>>
               /\ phase' = "awaiting"
               /\ UNCHANGED plan
  /\ UNCHANGED <<tlVars, ag, clf>>

StoreOnboard(body) == StoreOnboardWithin(body, MaxEmployees)

\* POST /onboard after the await: merge, summary and timeline, then
\* `employee.onboardingPlan = plan` and the answer
StoreOnboardAnswer ==
  /\ phase = "awaiting"
  /\ AllSettled(results)
  /\ heap' = Merged.heap
  /\ plan' = Merged.plan
  /\ store' = [store EXCEPT
       !.employees[store.response.employeeId].onboardingPlan = Merged.plan,
       !.response = [code |-> 200, employeeId |-> store.response.employeeId]]
  /\ phase' = "idle"
  /\ UNCHANGED <<employeeData, status, log, run, results, settled, tlVars, ag, clf>>

\* a status check that lets every status through
AnyStatus(s) == TRUE

\* `['pending', 'in_progress', 'completed'].includes(status)`
ValidStatus(s) == s \in {"pending", "in_progress", "completed"}

\* the position of the task `tasks.find((t) => t.id === taskId)` returns, 0
\* when there is none
FindTask(tasks, taskId) ==
  IF \E i \in 1..Len(tasks) : tasks[i].id = taskId
    THEN CHOOSE i \in 1..Len(tasks) :
           /\ tasks[i].id = taskId
           /\ \A j \in 1..(i - 1) : tasks[j].id # taskId
    ELSE 0

\* updateTaskStatus(employeeId, taskId, status): the store after it and the
\* task it returns (found FALSE for null and undefined)
updateTaskStatus(employees, employeeId, taskId, s) ==
  IF ~Has(employees, employeeId) \/ ~HasPlan(employees[employeeId])
    THEN [found |-> FALSE, employees |-> employees]
    ELSE LET tasks == employees[employeeId].onboardingPlan.employee["tasks"].arr
             i == FindTask(tasks, taskId)
             updated == [tasks EXCEPT ![i].status = s]
         IN IF i = 0 THEN [found |-> FALSE, employees |-> employees]
            ELSE [found |-> TRUE,
                  task |-> updated[i],
                  employees |->
                    [employees EXCEPT ![employeeId].onboardingPlan.employee =
                       SetProp(@, "tasks", Arr(updated))]]

\* a route that leaves the summary as it was
KeepSummary(entry) == entry

\* the route's recount of completed, inProgress and pending on the summary
Recount(entry) ==
  IF ~HasPlan(entry) THEN entry
  ELSE LET tasks == entry.onboardingPlan.employee["tasks"].arr
       IN [entry EXCEPT
             !.onboardingPlan.summary.completed = CountStatus(tasks, "completed"),
             !.onboardingPlan.summary.inProgress = CountStatus(tasks, "in_progress"),
             !.onboardingPlan.summary.pending = CountStatus(tasks, "pending")]

\* PATCH /employees/:id/tasks/:taskId with body {status}
StorePatch(employeeId, taskId, s) ==
  /\ phase = "idle"
  /\ LET request == [route |-> "patch", employeeId |-> employeeId,
                     taskId |-> taskId, status |-> s]
         updated == updateTaskStatus(store.employees, employeeId, taskId, s)
     IN IF ~ValidStatus(s)
          THEN store' = [store EXCEPT !.request = request, !.response = [code |-> 400]]
          ELSE IF ~updated.found
            THEN store' = [store EXCEPT !.request = request, !.response = [code |-> 404]]
            ELSE store' = [store EXCEPT
                   !.employees = [updated.employees EXCEPT ![employeeId] = Recount(@)],
                   !.request = request,
                   !.response = [code |-> 200, task |-> updated.task]]
  /\ UNCHANGED <<orchVars, tlVars, ag, clf>>

\* the requests tried: the stored employees and an unknown one, a task that
\* starts pending, one that starts completed, and an id no task has
PatchEmployeeIds == {EmployeeId(n) : n \in 0..MaxEmployees}

PatchTaskIds == {"buddy-intro-meeting", "it-email-setup", "no-such-task"}

PatchStatuses == {"pending", "in_progress", "completed", "done"}

InitStore ==
  /\ OrchestratorInit
  /\ TimelineIdle
  /\ AgentIdle
  /\ ClfIdle
  /\ StoreIdle

NextStore ==
  \/ \E body \in OnboardBodies : StoreOnboard(body)
  \/ \E a \in Agents : AfterPerceive(a)
  \/ \E a \in Agents : AfterDecide(a)
  \/ \E a \in Agents : AfterAct(a)
  \/ \E a \in Agents : AfterReflect(a)
  \/ StoreOnboardAnswer
  \/ \E employeeId \in PatchEmployeeIds, taskId \in PatchTaskIds, s \in PatchStatuses :
       StorePatch(employeeId, taskId, s)

SpecStore == InitStore /\ [][NextStore]_vars

\* ------------------------------------------------------------------------
\* POST /onboard requests one after the other: the routes share the one
\* Orchestrator of line 12, and its four agents, between all requests
\* ------------------------------------------------------------------------
\* how many requests are let through the validation
MaxCalls == 2

NextCalls ==
  \/ \E body \in OnboardBodies : StoreOnboardWithin(body, MaxCalls)
  \/ \E a \in Agents : AfterPerceive(a)
  \/ \E a \in Agents : AfterDecide(a)
  \/ \E a \in Agents : AfterAct(a)
  \/ \E a \in Agents : AfterReflect(a)
  \/ StoreOnboardAnswer

SpecCalls == InitStore /\ [][NextCalls]_vars

\* ------------------------------------------------------------------------
\* The classifier (ClfModel) and POST /classify
\* ------------------------------------------------------------------------
\* this._executiveKeywords
executiveKeywords ==
  <<"ceo", "cto", "coo", "cfo", "ciso", "vp", "vice president", "director",
    "head of", "chief", "president", "partner", "principal">>

\* this._technicalDepts
technicalDepts ==
  <<"engineering", "data", "devops", "platform", "infrastructure", "ml", "ai",
    "security", "sre", "backend", "frontend", "fullstack">>

\* this._tierBaseDays[tier] ?? 30
tierBaseDays(tier) ==
  CASE tier = "executive" -> 60
    [] tier = "technical" -> 45
    [] tier = "remote-intensive" -> 35
    [] tier = "standard" -> 30
    [] OTHER -> 30

\* this._tierBaseIntensity[tier] ?? 2
tierBaseIntensity(tier) ==
  CASE tier = "executive" -> 4
    [] tier = "technical" -> 4
    [] tier = "remote-intensive" -> 3
    [] tier = "standard" -> 2
    [] OTHER -> 2

\* String.prototype.includes
includes(s, sub) ==
  \E i \in 0..(Len(s) - Len(sub)) : SubSeq(s, i + 1, i + Len(sub)) = sub

\* keywords.some((kw) => s.includes(kw))
SomeIncluded(keywords, s) == \E i \in 1..Len(keywords) : includes(s, keywords[i])

\* (employee[k] || '')
StringOrEmpty(employee, k) == IF Truthy(employee, k) THEN employee[k].str ELSE ""

\* a tier rule that looks at the department before the role
classifyTierDepartmentFirst(employee) ==
  LET role == toLowerCase(StringOrEmpty(employee, "role"))
      department == toLowerCase(StringOrEmpty(employee, "department"))
      location == toLowerCase(StringOrEmpty(employee, "location"))
  IN IF SomeIncluded(technicalDepts, department) THEN "technical"
     ELSE IF SomeIncluded(executiveKeywords, role) THEN "executive"
     ELSE IF location = "remote" \/ location = "hybrid" THEN "remote-intensive"
     ELSE "standard"

\* _classifyTier
classifyTier(employee) ==
  LET role == toLowerCase(StringOrEmpty(employee, "role"))
      department == toLowerCase(StringOrEmpty(employee, "department"))
      location == toLowerCase(StringOrEmpty(employee, "location"))
  IN IF SomeIncluded(executiveKeywords, role) THEN "executive"
     ELSE IF SomeIncluded(technicalDepts, department) THEN "technical"
     ELSE IF location = "remote" \/ location = "hybrid" THEN "remote-intensive"
     ELSE "standard"

\* the number a run of decimal digits stands for
RECURSIVE DigitsValue(_)
DigitsValue(s) ==
  IF Len(s) = 0 THEN 0
  ELSE 10 * DigitsValue(SubSeq(s, 1, Len(s) - 1))
       + (IndexOfChar(CharAt(s, Len(s)), DigitChars) - 1)

\* the days from 1970-01-01 to the day y-m-d of the civil calendar
DaysFromCivil(y, m, d) ==
  LET yy == IF m <= 2 THEN y - 1 ELSE y
      era == yy \div 400
      yoe == yy - era * 400
      doy == ((153 * (IF m > 2 THEN m - 3 ELSE m + 9) + 2) \div 5) + d - 1
      doe == yoe * 365 + (yoe \div 4) - (yoe \div 100) + doy
  IN era * 146097 + doe - 719468

\* s has the date-only form YYYY-MM-DD
IsDateOnly(s) ==
  /\ Len(s) = 10
  /\ \A i \in {1, 2, 3, 4, 6, 7, 9, 10} : CharAt(s, i) \in DigitSet
  /\ CharAt(s, 5) = "-"
  /\ CharAt(s, 8) = "-"
  /\ DigitsValue(SubSeq(s, 6, 7)) \in 1..12
  /\ DigitsValue(SubSeq(s, 9, 10)) \in 1..31

\* `new Date(dateStr)`, in hours since the epoch: a date-only string is the
\* midnight of that day in UTC, any other string of the inputs is no date
DateParse(s) ==
  IF IsDateOnly(s)
  THEN [valid |-> TRUE,
        hours |-> 24 * DaysFromCivil(DigitsValue(SubSeq(s, 1, 4)),
                                     DigitsValue(SubSeq(s, 6, 7)),
                                     DigitsValue(SubSeq(s, 9, 10)))]
  ELSE [valid |-> FALSE]

\* `today.setHours(0, 0, 0, 0)`: the midnight that began the local day, in
\* hours since the epoch; now.offset is the hours local time is ahead of UTC
LocalMidnight(now) ==
  24 * DaysFromCivil(now.year, now.month, now.day) - now.offset

\* _leadDays: Math.floor((start - today) / day), NaN when start is no date
leadDays(dateStr, now) ==
  LET start == DateParse(dateStr)
  IN IF start.valid
     THEN [nan |-> FALSE, days |-> (start.hours - LocalMidnight(now)) \div 24]
     ELSE [nan |-> TRUE]

\* the score _classifyRisk adds up for the start date
StartDatePenalty(employee, now) ==
  IF Truthy(employee, "startDate")
  THEN LET lead == leadDays(employee["startDate"].str, now)
       IN IF lead.nan THEN 0
          ELSE IF lead.days < 0 THEN 3
          ELSE IF lead.days < 3 THEN 2
          ELSE IF lead.days < 7 THEN 1
          ELSE 0
  ELSE 1

\* a penalty with the test turned round: counted when the field is there
PresentPenalty(employee, k, weight) == IF Truthy(employee, k) THEN weight ELSE 0

\* `if (!employee[k]) score += weight`
MissingPenalty(employee, k, weight) == IF Truthy(employee, k) THEN 0 ELSE weight

\* the score of _classifyRisk
RiskScore(employee, now) ==
  MissingPenalty(employee, "email", 2)
  + MissingPenalty(employee, "role", 2)
  + MissingPenalty(employee, "department", 2)
  + MissingPenalty(employee, "manager", 1)
  + MissingPenalty(employee, "location", 1)
  + StartDatePenalty(employee, now)

\* _classifyRisk
classifyRisk(employee, now) ==
  LET score == RiskScore(employee, now)
  IN IF score >= 5 THEN "high" ELSE IF score >= 2 THEN "medium" ELSE "low"

\* Math.min
Min(a, b) == IF a <= b THEN a ELSE b

\* an intensity that forgets the bonus of a high risk
scoreIntensityNoBonus(tier, riskLevel) == Min(5, tierBaseIntensity(tier))

\* _scoreIntensity
scoreIntensity(tier, riskLevel) ==
  Min(5, tierBaseIntensity(tier) + (IF riskLevel = "high" THEN 1 ELSE 0))

\* _estimateDays
estimateDays(tier, intensity) == tierBaseDays(tier) + (intensity - 2) * 5

\* [...new Set(areas)]: the first occurrences, in order
Deduplicate(areas) ==
  SelectSeq([i \in 1..Len(areas) |->
               IF \E j \in 1..(i - 1) : areas[j] = areas[i] THEN "" ELSE areas[i]],
            LAMBDA a : a # "")

\* focus areas with the document collection of a medium risk put first
determineFocusAreasMediumFirst(tier, riskLevel, employee) ==
  Deduplicate(
    (IF riskLevel = "high" THEN <<"document-collection", "account-provisioning">> ELSE <<>>)
    \o (IF riskLevel = "medium" THEN <<"document-collection">> ELSE <<>>)
    \o (CASE tier = "executive" ->
               <<"strategic-alignment", "stakeholder-meetings", "leadership-integration">>
          [] tier = "technical" ->
               <<"system-access", "technical-training", "code-review-process">>
          [] tier = "remote-intensive" ->
               <<"communication-setup", "buddy-program", "async-workflows">>
          [] OTHER -> <<"company-culture", "team-integration", "tools-training">>)
    \o (IF ~Truthy(employee, "manager") THEN <<"manager-assignment">> ELSE <<>>))

\* _determineFocusAreas
determineFocusAreas(tier, riskLevel, employee) ==
  Deduplicate(
    (IF riskLevel = "high" THEN <<"document-collection", "account-provisioning">> ELSE <<>>)
    \o (CASE tier = "executive" ->
               <<"strategic-alignment", "stakeholder-meetings", "leadership-integration">>
          [] tier = "technical" ->
               <<"system-access", "technical-training", "code-review-process">>
          [] tier = "remote-intensive" ->
               <<"communication-setup", "buddy-program", "async-workflows">>
          [] OTHER -> <<"company-culture", "team-integration", "tools-training">>)
    \o (IF riskLevel = "medium" THEN <<"document-collection">> ELSE <<>>)
    \o (IF ~Truthy(employee, "manager") THEN <<"manager-assignment">> ELSE <<>>))

\* _computeConfidence: Math.round((earnedWeight / totalWeight) * 100), the
\* weights adding up to 10
computeConfidence(employee) ==
  LET weight == [firstName |-> 1, lastName |-> 1, department |-> 2, role |-> 2,
                 location |-> 1, startDate |-> 1, manager |-> 1, email |-> 1]
      fields == <<"firstName", "lastName", "department", "role", "location",
                  "startDate", "manager", "email">>
      RECURSIVE Earned(_)
      Earned(i) == IF i = 0 THEN 0
                   ELSE Earned(i - 1) + (IF Truthy(employee, fields[i]) THEN weight[fields[i]] ELSE 0)
  IN (Earned(Len(fields)) * 100 + 5) \div 10

\* classify
classify(employee, now) ==
  LET tier == classifyTier(employee)
      riskLevel == classifyRisk(employee, now)
      onboardingIntensity == scoreIntensity(tier, riskLevel)
  IN [tier |-> tier,
      riskLevel |-> riskLevel,
      onboardingIntensity |-> onboardingIntensity,
      estimatedCompletionDays |-> estimateDays(tier, onboardingIntensity),
      focusAreas |-> determineFocusAreas(tier, riskLevel, employee),
      confidence |-> computeConfidence(employee),
      modelVersion |-> "1.0.0"]

\* the request bodies: a field is <<>> when the body leaves it out and
\* <<value>> when it carries it
Field(k, choice) == IF choice = <<>> THEN EmptyObject ELSE (k :> Str(choice[1]))

RoleValues == {"Software Engineer", "VP of Sales", "Contractor"}
DepartmentValues == {"Engineering", "Sales", "Retail"}
LocationValues == {"Remote", "HYBRID", "Remote - US", "Office"}
EmailValues == {"ana@example.com"}
ManagerValues == {"Pat Lee"}
StartDateValues ==
  {"2026-02-28", "2026-03-01", "2026-03-02", "2026-03-04", "2026-03-05",
   "2026-03-06", "2026-03-08", "2026-03-09", "soon"}

\* the values a body may carry for field k
ValuesOf(k) ==
  CASE k = "role" -> RoleValues
    [] k = "department" -> DepartmentValues
    [] k = "location" -> LocationValues
    [] k = "email" -> EmailValues
    [] k = "manager" -> ManagerValues
    [] k = "startDate" -> StartDateValues

ScoredFields == {"email", "role", "department", "manager", "location", "startDate"}

\* carried, left out, or (role and location) carried as the empty string
ChoicesOf(k) ==
  {<<>>} \cup {<<v>> : v \in ValuesOf(k)}
  \cup (IF k \in {"role", "location"} THEN {<<"">>} ELSE {})

Profiles ==
  {Field("firstName", <<"Ana">>) @@ Field("lastName", <<"Lopez">>)
   @@ Field("email", e) @@ Field("role", r) @@ Field("department", d)
   @@ Field("manager", m) @@ Field("location", l) @@ Field("startDate", s) :
     e \in ChoicesOf("email"), r \in ChoicesOf("role"), d \in ChoicesOf("department"),
     m \in ChoicesOf("manager"), l \in ChoicesOf("location"), s \in ChoicesOf("startDate")}

\* the server's clock: the local day is 2026-03-02, the local time is 5 hours
\* behind, equal to, or 2 hours ahead of UTC
Clocks == {[year |-> 2026, month |-> 3, day |-> 2, offset |-> o] : o \in {-5, 0, 2}}

\* POST /classify with the body the state holds
PostClassify ==
  /\ clf.pc = "idle"
  /\ clf' = [clf EXCEPT !.pc = "classified",
                        !.result = classify(clf.employee, clf.now)]
  /\ UNCHANGED <<orchVars, tlVars, ag, store>>

\* POST /classify again, the body now carrying a value for a scored field
\* that it left out or carried empty
PostClassifyWith(k, v) ==
  /\ clf.pc = "classified"
  /\ clf.supplied = "none"
  /\ ~Truthy(clf.employee, k)
  /\ clf' = [clf EXCEPT !.employee = SetProp(clf.employee, k, Str(v)),
                        !.supplied = k,
                        !.result = classify(SetProp(clf.employee, k, Str(v)), clf.now)]
  /\ UNCHANGED <<orchVars, tlVars, ag, store>>

InitClassify ==
  /\ clf \in {[pc |-> "idle", employee |-> p, now |-> c, supplied |-> "none",
               result |-> [tier |-> "none"]] : p \in Profiles, c \in Clocks}
  /\ OrchestratorInit
  /\ TimelineIdle
  /\ AgentIdle
  /\ StoreIdle

NextClassify ==
  \/ PostClassify
  \/ \E k \in ScoredFields : \E v \in ValuesOf(k) : PostClassifyWith(k, v)

SpecClassify == InitClassify /\ [][NextClassify]_vars

\* ------------------------------------------------------------------------
\* Vocabulary of the properties
\* ------------------------------------------------------------------------
Returned == phase = "returned"

Fulfilled(a) == results[a].status = "fulfilled"

Rejected(a) == results[a].status = "rejected"

AllFulfilled == \A a \in Agents : Fulfilled(a)

\* context.employee as onboard built it, and the copy every agent started from
ContextEmployee0 == NewContextEmployee(employeeData)

Copy0 == copyFor(ContextEmployee0)

\* the employee object agent a works on
EmployeeOf(a) == heap[run[a].employee]

\* the tasks agent a's act has pushed, in emission order
Emitted(a) == OrEmptyArray(EmployeeOf(a), "tasks").arr

\* the employee properties (tasks aside) agent a has written
WrittenBy(a) ==
  {k \in DOMAIN EmployeeOf(a) \ {"tasks"} : ~Has(Copy0, k) \/ EmployeeOf(a)[k] # Copy0[k]}

PlanTasks == plan.employee["tasks"].arr

PlanLog(a) == LogEntries(plan.agentLogs[a], log)

\* ------------------------------------------------------------------------
\* C1: when all four runs succeed, the merged task sequence is the HR tasks,
\* then the IT tasks, then the Training tasks, then the Buddy tasks, each in
\* the order its agent emitted them, whatever order the runs settled in.
\* ------------------------------------------------------------------------
C1_MergeOrder ==
  (Returned /\ AllFulfilled) =>
    PlanTasks = Emitted("hr") \o Emitted("it") \o Emitted("training") \o Emitted("buddy")

\* all four succeeded with tasks, and they settled in the reverse order
C1_Witness ==
  /\ Returned
  /\ AllFulfilled
  /\ settled = <<"buddy", "training", "it", "hr">>
  /\ \A a \in Agents : Len(Emitted(a)) > 1

\* ------------------------------------------------------------------------
\* C2: whatever subset of the runs rejects, onboard returns a plan; a
\* rejected agent has exactly one log entry in it, of action error, no task
\* and no property of its own in the merged employee; every task of an
\* agent that succeeded is in the merged tasks.
\* ------------------------------------------------------------------------
C2_FailureIsolation ==
  Returned =>
    /\ DOMAIN plan = {"employee", "summary", "agentLogs", "timeline"}
    /\ \A a \in Agents :
         Rejected(a) =>
           /\ Len(PlanLog(a)) = 1
           /\ PlanLog(a)[1].action = "error"
           /\ \A t \in Range(PlanTasks) : t.agent # AgentName(a)
           /\ \A k \in WrittenBy(a) :
                /\ Has(plan.employee, k) <=> Has(ContextEmployee0, k)
                /\ Has(plan.employee, k) => plan.employee[k] = ContextEmployee0[k]
    /\ \A a \in Agents :
         Fulfilled(a) => \A t \in Range(Emitted(a)) : t \in Range(PlanTasks)

\* the Buddy run rejected after its act had written, the HR run succeeded
C2_Witness ==
  /\ Returned
  /\ Rejected("buddy")
  /\ WrittenBy("buddy") # {}
  /\ Len(Emitted("buddy")) > 0
  /\ Fulfilled("hr")
  /\ Len(Emitted("hr")) > 0

\* ------------------------------------------------------------------------
\* C3: after a call in which all four agents succeed, every employee
\* property an agent's act has written still has that agent's value in the
\* merged employee; no later overlay overwrites it.
\* ------------------------------------------------------------------------
C3_WrittenFieldsKept ==
  (Returned /\ AllFulfilled) =>
    \A a \in Agents : \A k \in WrittenBy(a) :
      Has(plan.employee, k) /\ plan.employee[k] = EmployeeOf(a)[k]

\* ------------------------------------------------------------------------
\* C4: after every onboard call the merged tasks hold no two entries with
\* the same id.
\* ------------------------------------------------------------------------
C4_UniqueTaskIds ==
  Returned =>
    \A i \in 1..Len(PlanTasks) : \A j \in 1..Len(PlanTasks) :
      i # j => PlanTasks[i].id # PlanTasks[j].id

\* every agent contributed tasks for an employee that already held items
C4_Witness ==
  /\ Returned
  /\ AllFulfilled
  /\ \A a \in Agents : Len(Emitted(a)) > 0
  /\ Has(employeeData, "accounts")
  /\ Len(employeeData["accounts"].arr) > 0
  /\ Len(PlanTasks) > 20

\* ------------------------------------------------------------------------
\* C5: the merge starts only when all four runs have settled, every run
\* runs to its end whatever the others do, and the merged result is the one
\* the input alone determines, whatever order the runs settled in.
\* ------------------------------------------------------------------------
\* agent a run alone on a fresh copy of the input
SoloRun(a, data) ==
  LET e0 == copyFor(NewContextEmployee(data))
      p == Perceive(a, e0)
      d == Decide(a, e0, p.value)
      acted == Act(a, e0, <<>>, d.value)
      r == Reflect(a, acted.employee, acted.log)
  IN IF p.threw THEN [ok |-> FALSE, employee |-> e0]
     ELSE IF d.threw THEN [ok |-> FALSE, employee |-> e0]
     ELSE IF Len(d.value) = 0 THEN [ok |-> TRUE, employee |-> e0]
     ELSE [ok |-> ~r.threw, employee |-> acted.employee]

\* the merged employee the solo runs give, agents taken in the fixed order
RECURSIVE SoloMergeFrom(_, _, _)
SoloMergeFrom(acc, data, n) ==
  IF n > Len(agentNames) THEN SetProp(acc.employee, "tasks", Arr(acc.tasks))
  ELSE LET solo == SoloRun(agentNames[n], data)
       IN IF solo.ok
            THEN SoloMergeFrom([employee |-> ObjectAssign(acc.employee, solo.employee),
                                tasks |-> acc.tasks \o solo.employee["tasks"].arr],
                               data, n + 1)
            ELSE SoloMergeFrom(acc, data, n + 1)

SoloMerge(data) ==
  SoloMergeFrom([employee |-> NewContextEmployee(data), tasks |-> <<>>], data, 1)

C5_SettleBarrier ==
  Returned =>
    /\ \A a \in Agents : results[a].status # "pending" /\ run[a].pc = "settled"
    /\ Len(settled) = Len(agentNames)
    /\ plan.employee = SoloMerge(employeeData)
    /\ plan.timeline = buildTimeline(SoloMerge(employeeData)["tasks"].arr)
    /\ \A a \in Agents :
         plan.summary.agentSummaries[a].status =
           (IF SoloRun(a, employeeData).ok THEN "success" ELSE "error")

\* the last agent settled first, one run rejected and another succeeded
C5_Witness ==
  /\ Returned
  /\ settled[1] = "buddy"
  /\ settled[4] = "hr"
  /\ Rejected("it")
  /\ Fulfilled("training")
  /\ Len(Emitted("training")) > 0

\* ------------------------------------------------------------------------
\* C6: under every interleaving no agent observes another agent's writes:
\* what it perceives and decides is what the input alone gives, its employee
\* is the input copy or that copy after its own act, and the tasks it holds
\* all carry its own name.
\* ------------------------------------------------------------------------
C6_Isolation ==
  phase # "idle" =>
    LET copy0 == Copy0
    IN \A a \in Agents :
         /\ \A t \in Range(Emitted(a)) : t.agent = AgentName(a)
         /\ EmployeeOf(a) = copy0 \/ EmployeeOf(a) = SoloRun(a, employeeData).employee
         /\ run[a].pc = "perceive" => run[a].pending = Perceive(a, copy0)
         /\ run[a].pc = "decide" =>
              /\ run[a].perception = Perceive(a, copy0).value
              /\ run[a].pending = Decide(a, copy0, run[a].perception)

\* IT and Buddy have written while HR and Training are still to decide
C6_Witness ==
  /\ phase = "awaiting"
  /\ run["it"].pc = "act"
  /\ WrittenBy("it") # {}
  /\ run["buddy"].pc = "reflect"
  /\ WrittenBy("buddy") # {}
  /\ run["hr"].pc = "perceive"
  /\ run["training"].pc = "decide"
  /\ Len(run["training"].pending.value) > 0

\* ------------------------------------------------------------------------
\* C7: buildTimeline puts a task without dueInDays in Immediate and a task
\* of d days in Day 1-3 (d <= 3), Week 1 (<= 7), Week 2 (<= 14), Month 1
\* (<= 30) or Month 2-3 (> 30); Immediate holds only tasks without
\* dueInDays.
\* ------------------------------------------------------------------------
BucketNames == {"Immediate", "Day 1-3", "Week 1", "Week 2", "Month 1", "Month 2-3"}

\* the bucket the stated ranges give
StatedBucket(task) ==
  IF ~Has(task, "dueInDays") THEN "Immediate"
  ELSE IF task.dueInDays <= 3 THEN "Day 1-3"
  ELSE IF task.dueInDays <= 7 THEN "Week 1"
  ELSE IF task.dueInDays <= 14 THEN "Week 2"
  ELSE IF task.dueInDays <= 30 THEN "Month 1"
  ELSE "Month 2-3"

\* the entries of a bucket, none when the timeline has no such key
BucketEntries(tl, b) == IF Has(tl, b) THEN tl[b] ELSE <<>>

C7_StatedBuckets ==
  \A b \in BucketNames :
    Len(BucketEntries(timeline, b)) =
      Cardinality({i \in 1..tlIdx : StatedBucket(tlTasks[i]) = b})

\* ------------------------------------------------------------------------
\* C8: buildTimeline places every task in exactly one bucket, none dropped
\* or duplicated, and the entries of a bucket keep the order their tasks had
\* in the list.
\* ------------------------------------------------------------------------
\* the places <<bucket, index>> of a timeline
Places(tl) == UNION {{<<b, j>> : j \in 1..Len(tl[b])} : b \in DOMAIN tl}

\* position in tlTasks of the task an entry was built from (titles differ)
TaskIndexOf(entry) == CHOOSE i \in 1..Len(tlTasks) : tlTasks[i].title = entry.title

C8_Partition ==
  /\ Cardinality(Places(timeline)) = tlIdx
  /\ DOMAIN timeline \subseteq BucketNames
  /\ \A i \in 1..tlIdx :
       Cardinality({pl \in Places(timeline) :
                      timeline[pl[1]][pl[2]] = TimelineEntry(tlTasks[i])}) = 1
  /\ \A b \in DOMAIN timeline : \A j \in 1..Len(timeline[b]) : \A k \in 1..Len(timeline[b]) :
       j < k => TaskIndexOf(timeline[b][j]) < TaskIndexOf(timeline[b][k])

\* a whole list handled, two tasks in one bucket and a third in another
C8_Witness ==
  /\ tlIdx = Len(tlTasks)
  /\ tlIdx >= 3
  /\ Cardinality(DOMAIN timeline) >= 2
  /\ \E b \in DOMAIN timeline : Len(timeline[b]) >= 2

\* ------------------------------------------------------------------------
\* C9: for each agent, a run on an employee whose gaps are all satisfied
\* makes decide return no intent and adds no task.
\* ------------------------------------------------------------------------
\* the department the agents key their tables on
DepartmentOf(data) ==
  IF Truthy(data, "department") /\ IsStr(data["department"])
    THEN data["department"].str ELSE NoDepartment

\* every element of the list is held in the array property k
HoldsAll(data, k, items) ==
  /\ Has(data, k)
  /\ IsArr(data[k])
  /\ \A x \in Range(items) : x \in Range(data[k].arr)

Satisfied(a, data) ==
  CASE a = "hr" ->
         /\ HoldsAll(data, "documents", DocumentObjects(requiredDocs))
         /\ HoldsAll(data, "policiesAcknowledged", policies)
         /\ Truthy(data, "benefitsEnrollmentStarted")
    [] a = "it" ->
         /\ Truthy(data, "emailProvisioned")
         /\ HoldsAll(data, "accounts", ProfileFor(DepartmentOf(data)).software)
         /\ HoldsAll(data, "hardware", ProfileFor(DepartmentOf(data)).hardware)
    [] a = "training" ->
         /\ HoldsAll(data, "completedTraining", ModuleIds(ModulesFor(DepartmentOf(data))))
         /\ Truthy(data, "managerMeetingScheduled")
         /\ Truthy(data, "teamIntroScheduled")
    [] a = "buddy" ->
         /\ Truthy(data, "buddy")
         /\ Truthy(data, "checkInsScheduled")

C9_SatisfiedAddsNothing ==
  phase # "idle" =>
    \A a \in Agents :
      Satisfied(a, employeeData) =>
        /\ (run[a].pc = "decide" /\ ~run[a].pending.threw) => run[a].pending.value = <<>>
        /\ Emitted(a) = <<>>

\* ------------------------------------------------------------------------
\* C10: for every employee whose department is absent or a string other
\* than engineering, design, product or sales (compared without case), the
\* IT and Training agents use their default profile and their runs raise no
\* exception.
\* ------------------------------------------------------------------------
RecognizedDepartments == {"engineering", "design", "product", "sales"}

UnrecognizedDepartment(data) ==
  \/ ~Has(data, "department")
  \/ /\ IsStr(data["department"])
     /\ toLowerCase(data["department"].str) \notin RecognizedDepartments

\* the properties the agent reads besides the department have their types
WellTypedFor(a, data) ==
  CASE a = "it" -> IsStr(data["firstName"]) /\ IsStr(data["lastName"])
    [] a = "training" -> Has(data, "completedTraining") => IsArr(data["completedTraining"])

\* the table entry the agent has perceived is its default one
UsesDefault(a) ==
  CASE a = "it" -> run[a].perception.profile = roleProfiles["default"]
    [] a = "training" -> run[a].perception.roleModules = roleModules["default"]

C10_DefaultFallback ==
  phase # "idle" =>
    \A a \in {"it", "training"} :
      (UnrecognizedDepartment(employeeData) /\ WellTypedFor(a, employeeData)) =>
        /\ ~Rejected(a)
        /\ run[a].pc \notin {"idle", "perceive"} => UsesDefault(a)

\* ------------------------------------------------------------------------
\* Vocabulary of the properties of a single agent's runs
\* ------------------------------------------------------------------------
\* the run is inside the loop body, waiting for a phase
InLoop == ag.pc \in {"perceive", "decide", "act", "reflect"}

AgentSettled == ag.pc = "settled"

\* the phase the run is waiting for has thrown
PhaseThrew == InLoop /\ ag.pending.threw

\* the entries of this.log with a given action
EntriesOf(entries, action) == SelectSeq(entries, LAMBDA l : l.action = action)

\* ------------------------------------------------------------------------
\* C11: a run whose phases return goes through the loop body at most
\* MAX_ITERATIONS = 5 times (loop variable 0..4) and settles fulfilled with
\* status completed, also when decide always returns intents and reflect
\* never reports complete; a run of one of the four concrete agents never
\* starts a second iteration; every step of a run under way either settles
\* it or moves it on to a later phase or iteration, so that no run takes
\* more than 4 * 5 steps.
\* ------------------------------------------------------------------------
\* how far a run under way has come: four phases per iteration
PhaseRank(pc) ==
  CASE pc = "perceive" -> 1
    [] pc = "decide" -> 2
    [] pc = "act" -> 3
    [] pc = "reflect" -> 4
    [] OTHER -> 0

RunMeasure == 4 * ag.i + PhaseRank(ag.pc)

C11_RunBounds ==
  /\ InLoop => ag.i < MAX_ITERATIONS
  /\ ag.kind \in Agents => ag.i = 0
  /\ (AgentSettled /\ ag.outcome.status = "fulfilled") => ag.status = "completed"
  /\ (AgentSettled /\ ag.outcome.status = "rejected") => ag.pending.threw

C11_RunAdvances == InLoop => (AgentSettled' \/ (InLoop' /\ RunMeasure' > RunMeasure))

C11_BoundedRun ==
  /\ []C11_RunBounds
  /\ [][C11_RunAdvances]_vars

\* a run that used all five iterations, reflect never complete, and completed
C11_Witness ==
  /\ ag.kind = "any"
  /\ AgentSettled
  /\ ag.i = MAX_ITERATIONS
  /\ ~ag.complete
  /\ ag.status = "completed"

\* ------------------------------------------------------------------------
\* C12: when perceive, decide, act or reflect has thrown, run ends with
\* status error, this.log grows by exactly one entry, of action error and
\* with the error's message as detail (so no complete entry is added), and
\* the promise of run rejects with that same error.
\* ------------------------------------------------------------------------
C12_ErrorStep ==
  PhaseThrew =>
    /\ AgentSettled'
    /\ ag'.status = "error"
    /\ Len(ag'.log) = Len(ag.log) + 1
    /\ SubSeq(ag'.log, 1, Len(ag.log)) = ag.log
    /\ ag'.log[Len(ag'.log)].action = "error"
    /\ ag'.log[Len(ag'.log)].detail = ag.pending.message
    /\ ag'.outcome.status = "rejected"
    /\ ag'.outcome.reason.message = ag.pending.message

C12_ErrorPropagates == [][C12_ErrorStep]_vars

\* a concrete agent whose reflect threw after act had added entries, settled
C12_Witness ==
  /\ ag.kind = "buddy"
  /\ AgentSettled
  /\ ag.status = "error"
  /\ ag.outcome.status = "rejected"
  /\ Len(EntriesOf(ag.log, "error")) = 1
  /\ Len(ag.log) > 2

\* ------------------------------------------------------------------------
\* C18: the status of an agent instance moves idle -> running -> completed
\* or error only, and once it is completed or error it never changes again,
\* however many times run is called on the instance.
\* ------------------------------------------------------------------------
C18_StatusStep ==
  /\ ag.status = "idle" => ag'.status \in {"idle", "running"}
  /\ ag.status = "running" => ag'.status \in {"running", "completed", "error"}
  /\ ag.status \in {"completed", "error"} => ag'.status = ag.status

C18_TerminalStatus == [][C18_StatusStep]_vars

\* ------------------------------------------------------------------------
\* C13: the buddy the Buddy agent decides on, and assigns in act, is the pool
\* member with the highest score, the score being the rating plus 3 when the
\* member's department is the employee's department in lower case; of the
\* members with that highest score it is the first of the catalog.  (Ratings
\* and scores are in tenths.)
\* ------------------------------------------------------------------------
StatedScore(i, department) ==
  buddyPool[i].rating
    + (IF buddyPool[i].department = toLowerCase(department) THEN 3 * 10 ELSE 0)

StatedBuddy(department) ==
  CHOOSE i \in 1..Len(buddyPool) :
    \A j \in 1..Len(buddyPool) :
      \/ StatedScore(j, department) < StatedScore(i, department)
      \/ StatedScore(j, department) = StatedScore(i, department) /\ i <= j

\* the assign_buddy intents of the last decide
AssignIntents == SelectSeq(ag.actions, LAMBDA x : x.type = "assign_buddy")

Planned(st) == {id \in DOMAIN st.employees : HasPlan(st.employees[id])}

\* the task list of the stored plan of employee id
StoredTasks(st, id) == st.employees[id].onboardingPlan.employee["tasks"].arr

\* how many tasks of the list have status s
NumberWith(tasks, s) == Cardinality({i \in 1..Len(tasks) : tasks[i].status = s})

\* ------------------------------------------------------------------------
\* C14: in every stored plan, whatever status updates were asked for since
\* it was made, summary.completed, summary.inProgress and summary.pending
\* are the numbers of tasks of the plan with status completed, in_progress
\* and pending, and they add up to summary.totalTasks.
\* ------------------------------------------------------------------------
C14_SummaryCounts ==
  \A id \in Planned(store) :
    LET summary == store.employees[id].onboardingPlan.summary
        tasks == StoredTasks(store, id)
    IN /\ summary.completed = NumberWith(tasks, "completed")
       /\ summary.inProgress = NumberWith(tasks, "in_progress")
       /\ summary.pending = NumberWith(tasks, "pending")
       /\ summary.completed + summary.inProgress + summary.pending = summary.totalTasks
       /\ summary.totalTasks = Len(tasks)

\* a rejected update that came after one that made a pending task completed
C14_Witness ==
  /\ store.request.route = "patch"
  /\ store.response.code = 404
  /\ \E id \in Planned(store) :
       \E i \in 1..Len(StoredTasks(store, id)) :
         /\ StoredTasks(store, id)[i].id = "buddy-intro-meeting"
         /\ StoredTasks(store, id)[i].status = "completed"

\* ------------------------------------------------------------------------
\* C20: once an employee has a plan, no request takes the plan away or
\* changes the length, the order, the ids or any field but status of its
\* tasks; a status changes only on the one task the request names, to the
\* status it asks for, and on no second task; and a request that names an invalid status, an
\* unknown employee or an unknown task changes no stored employee at all.
\* ------------------------------------------------------------------------
\* a task without its status
WithoutStatus(task) == [k \in DOMAIN task \ {"status"} |-> task[k]]

\* request r is a status update that must be rejected, given the store st
MustReject(r, st) ==
  /\ r.route = "patch"
  /\ \/ r.status \notin {"pending", "in_progress", "completed"}
     \/ r.employeeId \notin Planned(st)
     \/ \A i \in 1..Len(StoredTasks(st, r.employeeId)) :
          StoredTasks(st, r.employeeId)[i].id # r.taskId

C20_Step ==
  /\ \A id \in Planned(store) :
       /\ id \in Planned(store')
       /\ Len(StoredTasks(store', id)) = Len(StoredTasks(store, id))
       /\ \A i \in 1..Len(StoredTasks(store, id)) :
            LET before == StoredTasks(store, id)[i]
                after == StoredTasks(store', id)[i]
            IN /\ WithoutStatus(after) = WithoutStatus(before)
               /\ after.status # before.status =>
                    /\ store'.request.route = "patch"
                    /\ store'.request.employeeId = id
                    /\ store'.request.taskId = before.id
                    /\ store'.request.status = after.status
  /\ Cardinality({c \in UNION {{<<id, i>> : i \in 1..Len(StoredTasks(store, id))} :
                                  id \in Planned(store)} :
                    StoredTasks(store', c[1])[c[2]].status
                      # StoredTasks(store, c[1])[c[2]].status}) <= 1
  /\ MustReject(store'.request, store) => store'.employees = store.employees

C20_StatusOnly == [][C20_Step]_vars

\* an accepted update has just moved the completed e-mail task to in_progress
C20_Witness ==
  /\ store.request.route = "patch"
  /\ store.response.code = 200
  /\ store.response.task.id = "it-email-setup"
  /\ store.response.task.status = "in_progress"

\* ------------------------------------------------------------------------
\* Vocabulary of the properties of the classifier
\* ------------------------------------------------------------------------
Classified == clf.pc = "classified"

\* field k of the body as the rules read it: lower case, empty when missing
LowerText(k) == toLowerCase(StringOrEmpty(clf.employee, k))

\* some stretch of s is the word w
Contains(s, w) == \E i \in 1..Len(s) : \E j \in i..Len(s) : SubSeq(s, i, j) = w

ExecutiveRole == \E w \in Range(executiveKeywords) : Contains(LowerText("role"), w)

TechnicalDepartment == \E w \in Range(technicalDepts) : Contains(LowerText("department"), w)

RemoteLocation == LowerText("location") \in {"remote", "hybrid"}

\* ------------------------------------------------------------------------
\* C15: the tier of a classification is executive exactly when the role
\* contains an executive keyword; technical exactly when it does not and the
\* department contains a technical keyword; remote-intensive exactly when
\* neither does and the location is remote or hybrid in any letter case;
\* standard exactly when none of the three holds.
\* ------------------------------------------------------------------------
C15_TierOrder ==
  Classified =>
    /\ clf.result.tier \in {"executive", "technical", "remote-intensive", "standard"}
    /\ clf.result.tier = "executive" <=> ExecutiveRole
    /\ clf.result.tier = "technical" <=> ~ExecutiveRole /\ TechnicalDepartment
    /\ clf.result.tier = "remote-intensive" <=>
         ~ExecutiveRole /\ ~TechnicalDepartment /\ RemoteLocation
    /\ clf.result.tier = "standard" <=>
         ~ExecutiveRole /\ ~TechnicalDepartment /\ ~RemoteLocation

\* a VP of Sales of Engineering who works remotely was classified executive
C15_Witness ==
  /\ Classified
  /\ StringOrEmpty(clf.employee, "role") = "VP of Sales"
  /\ StringOrEmpty(clf.employee, "department") = "Engineering"
  /\ StringOrEmpty(clf.employee, "location") = "Remote"
  /\ clf.result.tier = "executive"

\* ------------------------------------------------------------------------
\* Vocabulary of the risk score
\* ------------------------------------------------------------------------
\* the calendar days from the server's local day to the day a date-only
\* start date names
DaysAhead(dateStr, now) ==
  DaysFromCivil(DigitsValue(SubSeq(dateStr, 1, 4)), DigitsValue(SubSeq(dateStr, 6, 7)),
                DigitsValue(SubSeq(dateStr, 9, 10)))
  - DaysFromCivil(now.year, now.month, now.day)

\* the start-date penalty as stated
StatedStartPenalty(employee, now) ==
  IF ~Truthy(employee, "startDate") THEN 1
  ELSE IF ~IsDateOnly(employee["startDate"].str) THEN 0
  ELSE LET ahead == DaysAhead(employee["startDate"].str, now)
       IN IF ahead < 0 THEN 3
          ELSE IF ahead < 3 THEN 2
          ELSE IF ahead < 7 THEN 1
          ELSE 0

\* the weight of the scored fields other than the start date
StatedWeight == [email |-> 2, role |-> 2, department |-> 2, manager |-> 1, location |-> 1]

RECURSIVE SumOver(_, _)
SumOver(f, S) ==
  IF S = {} THEN 0
  ELSE LET x == CHOOSE y \in S : TRUE IN f[x] + SumOver(f, S \ {x})

StatedScore16(employee, now) ==
  SumOver(StatedWeight, {k \in DOMAIN StatedWeight : ~Truthy(employee, k)})
  + StatedStartPenalty(employee, now)

StatedLevel(score) == IF score >= 5 THEN "high" ELSE IF score >= 2 THEN "medium" ELSE "low"

\* ------------------------------------------------------------------------
\* C16: the risk score of a classification is the sum of the penalties of
\* the missing fields (email 2, role 2, department 2, manager 1, location 1)
\* and the start-date penalty (3 for a start date before today, 2 for one
\* 0 to 2 days ahead, 1 for one 3 to 6 days ahead, 1 for none, 0 otherwise),
\* and riskLevel is high from 5, medium from 2, low below.
\* ------------------------------------------------------------------------
C16_RiskScore ==
  Classified =>
    /\ RiskScore(clf.employee, clf.now) = StatedScore16(clf.employee, clf.now)
    /\ clf.result.riskLevel = StatedLevel(StatedScore16(clf.employee, clf.now))

\* ------------------------------------------------------------------------
\* C17 as stated: a classification of the body with one missing scored
\* field supplied never has a higher risk score than the one before.
\* ------------------------------------------------------------------------
Supplies == Classified /\ clf.supplied = "none" /\ clf'.supplied # "none"

C17_NeverIncreases ==
  [][Supplies => RiskScore(clf'.employee, clf'.now) <= RiskScore(clf.employee, clf.now)]_vars

\* ------------------------------------------------------------------------
\* C17 as amended: supplying a missing email, role, department, manager or
\* location never increases the risk score; supplying a missing start date
\* increases it by at most 2, and not at all when the date is no date-only
\* string or names a day 4 or more days after the server's local day.
\* ------------------------------------------------------------------------
C17_Step ==
  Supplies =>
    LET before == RiskScore(clf.employee, clf.now)
        after == RiskScore(clf'.employee, clf'.now)
        date == clf'.employee["startDate"].str
    IN /\ clf'.supplied # "startDate" => after <= before
       /\ clf'.supplied = "startDate" =>
            /\ after <= before + 2
            /\ (~IsDateOnly(date) \/ DaysAhead(date, clf'.now) >= 4) => after <= before

C17_SuppliedFields == [][C17_Step]_vars

\* a start date 4 days ahead was supplied on a server 5 hours behind UTC
C17_Witness ==
  /\ Classified
  /\ clf.supplied = "startDate"
  /\ clf.employee["startDate"].str = "2026-03-06"
  /\ clf.now.offset = -5

\* ------------------------------------------------------------------------
\* C19: in a run of the HR, IT, Training or Buddy agent the employee the
\* run works on changes only in the step that calls act: perceive is handed
\* one of the contexts and leaves its employee as handed over, and the
\* steps that call decide and reflect, and the ones that end the run, leave
\* every property of the employee as it was.
\* ------------------------------------------------------------------------
C19_Step ==
  ag.kind \in Agents =>
    /\ ag'.pc = "perceive" => ag'.employee \in RunContexts(ag.kind)
    /\ ag'.pc \in {"decide", "reflect", "settled"} => ag'.employee = ag.employee

C19_OnlyActWrites == [][C19_Step]_vars

\* reflect of the IT agent has been called on an employee to whom act gave
\* the accounts of the default profile
C19_Witness ==
  /\ ag.kind = "it"
  /\ ag.pc = "reflect"
  /\ ag.employee \notin RunContexts("it")
  /\ Truthy(ag.employee, "emailProvisioned")

\* ------------------------------------------------------------------------
\* Vocabulary of the focus areas, the intensity and the days
\* ------------------------------------------------------------------------
StatedTriad ==
  [executive |-> <<"strategic-alignment", "stakeholder-meetings", "leadership-integration">>,
   technical |-> <<"system-access", "technical-training", "code-review-process">>,
   standard |-> <<"company-culture", "team-integration", "tools-training">>]
  @@ ("remote-intensive" :> <<"communication-setup", "buddy-program", "async-workflows">>)

StatedIntensityBase ==
  [executive |-> 4, technical |-> 4, standard |-> 2] @@ ("remote-intensive" :> 3)

StatedDaysBase ==
  [executive |-> 60, technical |-> 45, standard |-> 30] @@ ("remote-intensive" :> 35)

\* ------------------------------------------------------------------------
\* C21: the focusAreas of a classification have no entry twice and are,
\* in this order: document-collection and account-provisioning when the
\* risk is high; the three areas of the tier; document-collection when the
\* risk is medium; manager-assignment, last, exactly when the manager is
\* missing; and nothing else.
\* ------------------------------------------------------------------------
C21_FocusAreas ==
  Classified =>
    LET f == clf.result.focusAreas
        high == clf.result.riskLevel = "high"
        medium == clf.result.riskLevel = "medium"
        noManager == ~Truthy(clf.employee, "manager")
        o == IF high THEN 2 ELSE 0
    IN /\ \A i \in 1..Len(f) : \A j \in 1..Len(f) : f[i] = f[j] => i = j
       /\ Len(f) = o + 3 + (IF medium THEN 1 ELSE 0) + (IF noManager THEN 1 ELSE 0)
       /\ high => f[1] = "document-collection" /\ f[2] = "account-provisioning"
       /\ SubSeq(f, o + 1, o + 3) = StatedTriad[clf.result.tier]
       /\ medium => f[o + 4] = "document-collection"
       /\ noManager <=> f[Len(f)] = "manager-assignment"

\* a technical profile of medium risk without a manager
C21_Witness ==
  /\ Classified
  /\ clf.result.focusAreas =
       <<"system-access", "technical-training", "code-review-process",
         "document-collection", "manager-assignment">>

\* ------------------------------------------------------------------------
\* C22: onboardingIntensity is the smaller of 5 and the base of the tier
\* (executive 4, technical 4, remote-intensive 3, standard 2) plus 1 when
\* the risk is high, and lies in 1..5; estimatedCompletionDays is the base
\* days of the tier (60, 45, 35, 30) plus 5 times the intensity less 2.
\* ------------------------------------------------------------------------
C22_IntensityAndDays ==
  Classified =>
    LET r == clf.result
        raw == StatedIntensityBase[r.tier] + (IF r.riskLevel = "high" THEN 1 ELSE 0)
    IN /\ r.onboardingIntensity = (IF raw > 5 THEN 5 ELSE raw)
       /\ r.onboardingIntensity \in 1..5
       /\ r.estimatedCompletionDays = StatedDaysBase[r.tier] + (r.onboardingIntensity - 2) * 5

\* an executive of high risk: intensity 5 and 75 days
C22_Witness ==
  /\ Classified
  /\ clf.result.tier = "executive"
  /\ clf.result.riskLevel = "high"
  /\ clf.result.onboardingIntensity = 5
  /\ clf.result.estimatedCompletionDays = 75

\* ------------------------------------------------------------------------
\* Vocabulary of the properties of successive onboard calls
\* ------------------------------------------------------------------------
\* POST /onboard has just answered with the plan the variable plan holds;
\* results still holds the outcomes of that call's four runs
JustReturned ==
  /\ phase = "idle"
  /\ store.request.route = "onboard"
  /\ store.response.code = 200

\* the positions of the entries of entries whose action is action
PositionsOf(entries, action) == {i \in 1..Len(entries) : entries[i].action = action}

\* the array agentLogs[a] of the stored plan of employee id, as it is now
StoredLog(id, a) == LogEntries(store.employees[id].onboardingPlan.agentLogs[a], log)

\* ------------------------------------------------------------------------
\* C23: in the plan a call returns, the agentLogs list of an agent whose run
\* was fulfilled in that call has exactly one start entry, its first, and
\* exactly one complete entry, its last.
\* ------------------------------------------------------------------------
C23_OwnEntriesOnly ==
  JustReturned =>
    \A a \in Agents :
      results[a].status = "fulfilled" =>
        /\ PositionsOf(PlanLog(a), "start") = {1}
        /\ PositionsOf(PlanLog(a), "complete") = {Len(PlanLog(a))}

\* ------------------------------------------------------------------------
\* C24: in the summary of the plan a call returns, an agent's status is
\* error exactly when its run was rejected in that call, and success when
\* its run was fulfilled.
\* ------------------------------------------------------------------------
C24_ErrorIffRejected ==
  JustReturned =>
    \A a \in Agents :
      /\ plan.summary.agentSummaries[a].status = "error" <=> results[a].status = "rejected"
      /\ results[a].status = "fulfilled" => plan.summary.agentSummaries[a].status = "success"

\* ------------------------------------------------------------------------
\* C25: for every stored plan and every agent, whatever calls came later,
\* summary.agentSummaries[a].totalActions is the length of agentLogs[a].
\* ------------------------------------------------------------------------
C25_PlanKept ==
  \A id \in Planned(store) :
    \A a \in Agents :
      store.employees[id].onboardingPlan.summary.agentSummaries[a].totalActions
        = Len(StoredLog(id, a))

\* ------------------------------------------------------------------------
\* C26: in every stored plan, whatever status updates were asked for, the
\* entries of each bucket of the timeline are as many as the tasks of that
\* bucket, and the i-th entry has the status its task has now.
\* ------------------------------------------------------------------------
\* the tasks of the list that fall into bucket b, in order
TasksOfBucket(tasks, b) == SelectSeq(tasks, LAMBDA t : Bucket(t) = b)

C26_TimelineFollowsTasks ==
  \A id \in Planned(store) :
    LET timelineNow == store.employees[id].onboardingPlan.timeline
    IN \A b \in DOMAIN timelineNow :
         LET from == TasksOfBucket(StoredTasks(store, id), b)
         IN /\ Len(timelineNow[b]) = Len(from)
            /\ \A i \in 1..Len(from) : timelineNow[b][i].status = from[i].status

====
